---- MODULE Spec2Model ----
(***************************************************************************)
(* Model of the clinical assessment core of clinovia-saas:                 *)
(*   - app/clinical/utils.py: encode_gender, fill_defaults and the two     *)
(*     feature-vector builders;                                            *)
(*   - app/clinical/.../ml_models/*.py and cardiology/ascvd.py: the model  *)
(*     functions and their failure paths;                                  *)
(*   - app/services/alzheimer/cache.py: the result cache;                  *)
(*   - app/services/assessment_pipeline.py, the assessment repository and  *)
(*     the endpoint factory.                                               *)
(* Six specifications share the module: SpecPre (the pure preprocessing    *)
(* functions applied to bounded inputs), SpecShipped (the same functions   *)
(* with the shipped feature specs), SpecModel (the model functions under   *)
(* environment failures), Spec (cache, pipeline and endpoint), SpecCache   *)
(* (threads calling a cache_result wrapper) and SpecLoad (load_model and   *)
(* its download memo).                                                     *)
(***************************************************************************)
EXTENDS Integers, Sequences, FiniteSets, TLC

VARIABLES
    fcall,      \* SpecPre: the last call of a preprocessing function and its outcome
    mcall,      \* SpecModel: the last call of a model function and its outcome
    cache,      \* Spec: the module-level _cache dict of services/alzheimer/cache.py
    table,      \* Spec: the committed rows of the assessments table
    nextId,     \* Spec: source of fresh uuid4 values / row ids
    ncalls,     \* Spec: how often each underlying model function was invoked per input
    log,        \* Spec: one entry per finished run_assessment_pipeline invocation
    req,        \* Spec: the endpoint request being served (or the last one served)
    wcall,      \* SpecCache: per thread, its call of a cache_result wrapper in flight
    lcall,      \* SpecLoad: per thread, its call of load_model in flight
    memo,       \* SpecLoad: the lru_cache of _download_s3_to_tempfile, oldest first
    files       \* SpecLoad: the staged temporary files, path -> content

vars == <<fcall, mcall, cache, table, nextId, ncalls, log, req, wcall, lcall, memo, files>>

\* The variables of the wrapper threads and of model loading.
others == <<wcall, lcall, memo, files>>

(***************************************************************************)
(* Python values.  A value is None, a number, a string or float NaN.       *)
(* Records of different shapes are different values, as 1 != "1" in        *)
(* Python.  int and float are not told apart (81 == 81.0 in Python).       *)
(***************************************************************************)
None == [t |-> "none"]
NaN == [t |-> "nan"]
Num(n) == [t |-> "num", n |-> n]
Str(s) == [t |-> "str", s |-> s]

\* Outcome of a call: a normal return of a value, or a raised exception.
Ret(v) == [ok |-> TRUE, val |-> v]
Raise(e, a) == [ok |-> FALSE, err |-> e, arg |-> a]

\* The strings the model draws inputs from, and str.lower() on them.
Strings == {"male", "Male", "m", "M", "female", "FEMALE", "f", "F", "xyz", "e4", "2"}

Lower(s) ==
    CASE s = "Male" -> "male"
      [] s = "M" -> "m"
      [] s = "FEMALE" -> "female"
      [] s = "F" -> "f"
      [] OTHER -> s

\* float(v) as numpy applies it under dtype=float: numbers pass, None becomes
\* nan, a numeric string is parsed, any other string raises ValueError.
IsFloatable(v) == v.t \in {"num", "none", "nan"} \/ (v.t = "str" /\ v.s = "2")

ToFloat(v) ==
    CASE v.t = "num" -> v
      [] v.t = "none" -> NaN
      [] v.t = "nan" -> NaN
      [] v.t = "str" /\ v.s = "2" -> Num(2)
      [] OTHER -> NaN

Range(s) == {s[i] : i \in DOMAIN s}

EmptyDict == [k \in {} |-> None]

(***************************************************************************)
(* encode_gender (clinical/utils.py:33-48).  gender.lower() on a value     *)
(* that is not a string raises AttributeError.                             *)
(***************************************************************************)
encode_gender_unknown_as_female(gender) ==
    IF gender = None THEN Ret(Num(2))
    ELSE IF gender.t # "str" THEN Raise("AttributeError", "lower")
    ELSE IF Lower(gender.s) \in {"male", "m"} THEN Ret(Num(0))
    ELSE Ret(Num(1))

encode_gender(gender) ==
    IF gender = None THEN Ret(Num(2))
    ELSE IF gender.t # "str" THEN Raise("AttributeError", "lower")
    ELSE IF Lower(gender.s) \in {"male", "m"} THEN Ret(Num(0))
    ELSE IF Lower(gender.s) \in {"female", "f"} THEN Ret(Num(1))
    ELSE Ret(Num(2))

(***************************************************************************)
(* fill_defaults (clinical/utils.py:54-70): a copy of the input, then one  *)
(* pass over numeric_defaults and one over categorical_defaults; each pass *)
(* tests the copy being filled, not the original input.                    *)
(***************************************************************************)
FillPass_skip_null(filled, defaults) ==
    [k \in DOMAIN filled \cup DOMAIN defaults |->
        IF k \in DOMAIN defaults /\ k \notin DOMAIN filled
        THEN defaults[k] ELSE filled[k]]

FillPass(filled, defaults) ==
    [k \in DOMAIN filled \cup DOMAIN defaults |->
        IF k \in DOMAIN defaults /\ (k \notin DOMAIN filled \/ filled[k] = None)
        THEN defaults[k] ELSE filled[k]]

\* Dict objects are held by reference in a heap (reference -> items): the
\* caller's dict is object CallerRef, the copy a new object FreshRef.
CallerRef == 1
FreshRef == 2

\* filled = input_dict.copy() (line 58): a new dict with the same items.
dict_copy_alias(heap, ref, fresh) == [heap |-> heap, ref |-> ref]

dict_copy(heap, ref, fresh) ==
    [heap |-> [r \in DOMAIN heap \cup {fresh} |-> IF r = fresh THEN heap[ref] ELSE heap[r]],
     ref |-> fresh]

\* The two passes assign into the copy c.ref of the heap c.heap; the reference
\* returned is that of the copy.
FillInto(c, numeric_defaults, categorical_defaults) ==
    [heap |-> [c.heap EXCEPT ![c.ref] =
                    FillPass(FillPass(c.heap[c.ref], numeric_defaults), categorical_defaults)],
     ret |-> c.ref]

\* fill_defaults on the heap: filled is the copy made at line 58.
fill_defaults_on(heap, input_ref, numeric_defaults, categorical_defaults) ==
    CHOOSE h \in {FillInto(filled, numeric_defaults, categorical_defaults) :
                    filled \in {dict_copy(heap, input_ref, FreshRef)}} : TRUE

\* The caller's dict after a call of fill_defaults on it.
InputAfter(input_dict, numeric_defaults, categorical_defaults) ==
    fill_defaults_on([r \in {CallerRef} |-> input_dict], CallerRef,
                     numeric_defaults, categorical_defaults).heap[CallerRef]

\* The dict a call of fill_defaults returns.
fill_defaults(input_dict, numeric_defaults, categorical_defaults) ==
    CHOOSE d \in {r.heap[r.ret] :
                    r \in {fill_defaults_on([x \in {CallerRef} |-> input_dict], CallerRef,
                                            numeric_defaults, categorical_defaults)}} : TRUE

(***************************************************************************)
(* The steps the two builders share (clinical/utils.py:86-109, 133-159).   *)
(***************************************************************************)
\* for cat_col in categorical_columns: encode PTGENDER when present.
EncodeCategoricals_every_column(data_filled, categorical_columns) ==
    IF \E i \in DOMAIN categorical_columns :
            /\ categorical_columns[i] \in DOMAIN data_filled
            /\ ~encode_gender(data_filled[categorical_columns[i]]).ok
    THEN Raise("AttributeError", "lower")
    ELSE Ret([k \in DOMAIN data_filled |->
                IF k \in Range(categorical_columns)
                THEN encode_gender(data_filled[k]).val ELSE data_filled[k]])

EncodeCategoricals(data_filled, categorical_columns) ==
    IF "PTGENDER" \in Range(categorical_columns) /\ "PTGENDER" \in DOMAIN data_filled
    THEN LET e == encode_gender(data_filled["PTGENDER"])
         IN  IF e.ok THEN Ret([data_filled EXCEPT !["PTGENDER"] = e.val]) ELSE e
    ELSE Ret(data_filled)

\* [data_filled[col] for col in columns], KeyError on the first absent column.
FirstMissing(d, columns) ==
    LET I == {i \in DOMAIN columns : columns[i] \notin DOMAIN d}
    IN  CHOOSE i \in I : \A j \in I : i <= j

Collect(d, columns, what) ==
    IF \E i \in DOMAIN columns : columns[i] \notin DOMAIN d
    THEN Raise("KeyError", <<what, columns[FirstMissing(d, columns)]>>)
    ELSE Ret([i \in DOMAIN columns |-> d[columns[i]]])

\* The fitted scaler is opaque; the model's fitted scaler ("affine") maps x to
\* 2x + 1 and keeps nan, "raises" is a scaler whose transform raises (fitted on
\* another shape), "none" is the call without a scaler.
ScaleOne(x) == IF x.t = "num" THEN Num(2 * x.n + 1) ELSE x

\* dict(zip(columns, values)) followed by dict merges: later entries win.
ZipDict(columns, values) ==
    [k \in Range(columns) |->
        values[CHOOSE i \in DOMAIN columns :
                  columns[i] = k /\ \A j \in DOMAIN columns : columns[j] = k => j <= i]]

Merge(a, b) == [k \in DOMAIN a \cup DOMAIN b |-> IF k \in DOMAIN b THEN b[k] ELSE a[k]]

(***************************************************************************)
(* preprocess_for_prediction (clinical/utils.py:123-175): the array        *)
(* builder.  A call is the record a of its seven arguments.                *)
(***************************************************************************)
\* The position of a feature name in sorted(names).
NameRank(k) ==
    CASE k = "AGE" -> 1 [] k = "APOE4" -> 2 [] k = "MMSE_bl" -> 3 [] k = "PTGENDER" -> 4
      [] OTHER -> 5

\* np.array([feature_dict[f] for f in feature_order], dtype=float): KeyError on
\* the first name absent from feature_dict (re-raised as ValueError naming it),
\* ValueError on a value float() rejects.
ProjectArray_sorted_names(feature_dict, feature_order) ==
    IF \E i \in DOMAIN feature_order : feature_order[i] \notin DOMAIN feature_dict
    THEN Raise("ValueError:feature_not_found",
               feature_order[FirstMissing(feature_dict, feature_order)])
    ELSE IF \E i \in DOMAIN feature_order : ~IsFloatable(feature_dict[feature_order[i]])
    THEN Raise("ValueError:could_not_convert", "float")
    ELSE Ret([i \in DOMAIN feature_order |->
                ToFloat(feature_dict[
                    CHOOSE k \in Range(feature_order) :
                        Cardinality({m \in Range(feature_order) : NameRank(m) < NameRank(k)})
                            = i - 1])])

ProjectArray(feature_dict, feature_order) ==
    IF \E i \in DOMAIN feature_order : feature_order[i] \notin DOMAIN feature_dict
    THEN Raise("ValueError:feature_not_found",
               feature_order[FirstMissing(feature_dict, feature_order)])
    ELSE IF \E i \in DOMAIN feature_order : ~IsFloatable(feature_dict[feature_order[i]])
    THEN Raise("ValueError:could_not_convert", "float")
    ELSE Ret([i \in DOMAIN feature_order |-> ToFloat(feature_dict[feature_order[i]])])

preprocess_for_prediction_without_fill(a) ==
    LET data_filled == a.input_data
        enc == EncodeCategoricals(data_filled, a.categorical_columns)
    IN  IF ~enc.ok THEN enc ELSE
        LET numeric_values == Collect(enc.val, a.numeric_columns, "numeric")
        IN  IF ~numeric_values.ok THEN numeric_values ELSE
            \* np.array(numeric_values, dtype=float), with or without the scaler
            IF \E i \in DOMAIN numeric_values.val : ~IsFloatable(numeric_values.val[i])
            THEN Raise("ValueError:could_not_convert", "float") ELSE
            IF a.scaler = "raises" THEN Raise("ValueError:scaler", "scaler.transform") ELSE
            LET numeric_scaled ==
                    [i \in DOMAIN numeric_values.val |->
                        IF a.scaler = "none" THEN ToFloat(numeric_values.val[i])
                        ELSE ScaleOne(ToFloat(numeric_values.val[i]))]
                categorical_values == Collect(enc.val, a.categorical_columns, "categorical")
            IN  IF ~categorical_values.ok THEN categorical_values ELSE
                LET feature_dict ==
                        Merge(ZipDict(a.numeric_columns, numeric_scaled),
                              ZipDict(a.categorical_columns, categorical_values.val))
                    X == ProjectArray(feature_dict, a.feature_order)
                IN  IF ~X.ok THEN X
                    ELSE IF Len(X.val) # Len(a.feature_order)
                    THEN Raise("ValueError:shape_mismatch", Len(X.val))
                    ELSE X

preprocess_for_prediction(a) ==
    LET data_filled == fill_defaults(a.input_data, a.numeric_defaults, a.categorical_defaults)
        enc == EncodeCategoricals(data_filled, a.categorical_columns)
    IN  IF ~enc.ok THEN enc ELSE
        LET numeric_values == Collect(enc.val, a.numeric_columns, "numeric")
        IN  IF ~numeric_values.ok THEN numeric_values ELSE
            \* np.array(numeric_values, dtype=float), with or without the scaler
            IF \E i \in DOMAIN numeric_values.val : ~IsFloatable(numeric_values.val[i])
            THEN Raise("ValueError:could_not_convert", "float") ELSE
            IF a.scaler = "raises" THEN Raise("ValueError:scaler", "scaler.transform") ELSE
            LET numeric_scaled ==
                    [i \in DOMAIN numeric_values.val |->
                        IF a.scaler = "none" THEN ToFloat(numeric_values.val[i])
                        ELSE ScaleOne(ToFloat(numeric_values.val[i]))]
                categorical_values == Collect(enc.val, a.categorical_columns, "categorical")
            IN  IF ~categorical_values.ok THEN categorical_values ELSE
                LET feature_dict ==
                        Merge(ZipDict(a.numeric_columns, numeric_scaled),
                              ZipDict(a.categorical_columns, categorical_values.val))
                    X == ProjectArray(feature_dict, a.feature_order)
                IN  IF ~X.ok THEN X
                    ELSE IF Len(X.val) # Len(a.feature_order)
                    THEN Raise("ValueError:shape_mismatch", Len(X.val))
                    ELSE X

(***************************************************************************)
(* preprocess_for_prediction_dataframe (clinical/utils.py:76-120): the     *)
(* table builder.  pd.DataFrame([feature_dict], columns=feature_order)     *)
(* raises no KeyError: a column absent from feature_dict is filled with    *)
(* NaN.  Without a scaler the values are stored as they are, unconverted.  *)
(***************************************************************************)
ProjectFrame(feature_dict, feature_order) ==
    Ret([i \in DOMAIN feature_order |->
            IF feature_order[i] \in DOMAIN feature_dict
            THEN feature_dict[feature_order[i]] ELSE NaN])

preprocess_for_prediction_dataframe(a) ==
    LET data_filled == fill_defaults(a.input_data, a.numeric_defaults, a.categorical_defaults)
        enc == EncodeCategoricals(data_filled, a.categorical_columns)
    IN  IF ~enc.ok THEN enc ELSE
        LET numeric_values == Collect(enc.val, a.numeric_columns, "numeric")
        IN  IF ~numeric_values.ok THEN numeric_values ELSE
            IF a.scaler # "none"
               /\ \E i \in DOMAIN numeric_values.val : ~IsFloatable(numeric_values.val[i])
            THEN Raise("ValueError:could_not_convert", "float") ELSE
            IF a.scaler = "raises" THEN Raise("ValueError:scaler", "scaler.transform") ELSE
            LET numeric_scaled ==
                    [i \in DOMAIN numeric_values.val |->
                        IF a.scaler = "none" THEN numeric_values.val[i]
                        ELSE ScaleOne(ToFloat(numeric_values.val[i]))]
                categorical_values == Collect(enc.val, a.categorical_columns, "categorical")
            IN  IF ~categorical_values.ok THEN categorical_values ELSE
                LET feature_dict ==
                        Merge(ZipDict(a.numeric_columns, numeric_scaled),
                              ZipDict(a.categorical_columns, categorical_values.val))
                IN  ProjectFrame(feature_dict, a.feature_order)

(***************************************************************************)
(* Inputs of the preprocessing functions.  Feature names are those of the  *)
(* shipped specs that exercise each kind of column: AGE (numeric),         *)
(* PTGENDER (the encoded categorical) and APOE4 (a categorical that is not *)
(* encoded); patient_id is a key of the request that is no feature.        *)
(***************************************************************************)
FeatureNames == {"AGE", "PTGENDER", "APOE4"}

\* Longest numeric_columns / categorical_columns list the model draws.
MaxCols == 2

\* The values a request may carry at a key (a key may also be absent).
ValuesAt(k) ==
    CASE k = "AGE" -> {None, Num(81)}
      [] k = "PTGENDER" -> {None, Str("Male"), Str("xyz"), Num(1)}
      [] k = "APOE4" -> {None, Num(1), Str("e4"), Str("2")}
      [] OTHER -> {Num(7)}

AllValues == UNION {ValuesAt(k) : k \in FeatureNames \cup {"patient_id"}}

DictsOver(keys) ==
    UNION {{d \in [S -> AllValues] : \A k \in S : d[k] \in ValuesAt(k)} : S \in SUBSET keys}

InputDicts == DictsOver(FeatureNames \cup {"patient_id"})

\* Default tables: every restriction of a numeric and of a categorical table.
\* APOE4 is a key of both tables, so pairs of maps that overlap are drawn too.
NumericTable == [k \in {"AGE", "APOE4"} |-> IF k = "AGE" THEN Num(75) ELSE Num(0)]
CategoricalTable ==
    [k \in {"PTGENDER", "APOE4"} |-> IF k = "PTGENDER" THEN Str("female") ELSE Num(-1)]

Restrictions(f) == {[k \in S |-> f[k]] : S \in SUBSET DOMAIN f}

\* Sequences without repetition over a set, up to a length.
InjSeqs(S, n) ==
    UNION {{q \in [1..m -> S] : \A i, j \in 1..m : q[i] = q[j] => i = j} : m \in 0..n}

\* The default maps the builders are called with: the shipped shape (numeric
\* defaults for numeric columns, categorical for categorical), no defaults at
\* all (the caller pre-filled), and a table that lost its APOE4 entry.
BuilderDefaults ==
    { [nd |-> [k \in {"AGE"} |-> Num(75)], cd |-> CategoricalTable, scaler |-> "none"],
      [nd |-> [k \in {"AGE"} |-> Num(75)], cd |-> CategoricalTable, scaler |-> "affine"],
      [nd |-> EmptyDict, cd |-> EmptyDict, scaler |-> "none"],
      [nd |-> [k \in {"AGE"} |-> Num(75)], cd |-> [k \in {"PTGENDER"} |-> Str("female")],
       scaler |-> "none"] }

FeatureOrders == {fo \in InjSeqs(FeatureNames, Cardinality(FeatureNames)) : Len(fo) >= 2}

BuilderOps == {"preprocess_for_prediction", "preprocess_for_prediction_dataframe"}

GenderArgs == {None, Num(0), Num(1), Num(2)} \cup {Str(s) : s \in Strings}

PipeIdle ==
    /\ cache = EmptyDict
    /\ table = {}
    /\ nextId = 1
    /\ ncalls = EmptyDict
    /\ log = <<>>
    /\ req = None
    /\ wcall = None
    /\ lcall = None
    /\ memo = <<>>
    /\ files = EmptyDict

InitFillDefaults ==
    \E d \in InputDicts, nd \in Restrictions(NumericTable),
       cd \in Restrictions(CategoricalTable) :
        fcall = [op |-> "fill_defaults", done |-> FALSE,
                 args |-> [input_dict |-> d, numeric_defaults |-> nd,
                           categorical_defaults |-> cd],
                 out |-> None, after |-> None]

InitEncodeGender ==
    \E v \in GenderArgs :
        fcall = [op |-> "encode_gender", done |-> FALSE, args |-> v, out |-> None]

InitBuilder ==
    \E o \in BuilderOps, d \in DictsOver(FeatureNames), df \in BuilderDefaults,
       fo \in FeatureOrders,
       ncol \in InjSeqs(FeatureNames, MaxCols), ccol \in InjSeqs(FeatureNames, MaxCols) :
        /\ Range(ncol) \cap Range(ccol) = {}
        /\ fcall = [op |-> o, done |-> FALSE,
                    args |-> [input_data |-> d, numeric_defaults |-> df.nd,
                              categorical_defaults |-> df.cd, feature_order |-> fo,
                              numeric_columns |-> ncol, categorical_columns |-> ccol,
                              scaler |-> df.scaler],
                    out |-> None]

\* The call the documentation works through: the basic models' default
\* tables and column lists on a request that carries only AGE.
WorkedExample ==
    [input_data |-> [k \in {"AGE"} |-> Num(81)],
     numeric_defaults |-> [k \in {"AGE", "MMSE_bl"} |-> IF k = "AGE" THEN Num(75) ELSE Num(28)],
     categorical_defaults |-> CategoricalTable,
     feature_order |-> <<"AGE", "MMSE_bl", "PTGENDER", "APOE4">>,
     numeric_columns |-> <<"AGE", "MMSE_bl">>,
     categorical_columns |-> <<"PTGENDER", "APOE4">>,
     scaler |-> "none"]

InitWorkedExample ==
    \/ fcall = [op |-> "fill_defaults", done |-> FALSE,
                args |-> [input_dict |-> WorkedExample.input_data,
                          numeric_defaults |-> WorkedExample.numeric_defaults,
                          categorical_defaults |-> WorkedExample.categorical_defaults],
                out |-> None, after |-> None]
    \/ \E o \in BuilderOps : fcall = [op |-> o, done |-> FALSE, args |-> WorkedExample, out |-> None]

InitPre ==
    /\ InitFillDefaults \/ InitEncodeGender \/ InitBuilder \/ InitWorkedExample
    /\ mcall = None
    /\ PipeIdle

CallFillDefaults ==
    /\ fcall.op = "fill_defaults" /\ ~fcall.done
    /\ fcall' = [fcall EXCEPT !.done = TRUE,
                    !.out = Ret(fill_defaults(fcall.args.input_dict,
                                              fcall.args.numeric_defaults,
                                              fcall.args.categorical_defaults)),
                    !.after = InputAfter(fcall.args.input_dict,
                                         fcall.args.numeric_defaults,
                                         fcall.args.categorical_defaults)]
    /\ UNCHANGED <<others, mcall, cache, table, nextId, ncalls, log, req>>

CallEncodeGender ==
    /\ fcall.op = "encode_gender" /\ ~fcall.done
    /\ fcall' = [fcall EXCEPT !.done = TRUE, !.out = encode_gender(fcall.args)]
    /\ UNCHANGED <<others, mcall, cache, table, nextId, ncalls, log, req>>

CallPreprocess ==
    /\ fcall.op = "preprocess_for_prediction" /\ ~fcall.done
    /\ fcall' = [fcall EXCEPT !.done = TRUE, !.out = preprocess_for_prediction(fcall.args)]
    /\ UNCHANGED <<others, mcall, cache, table, nextId, ncalls, log, req>>

CallPreprocessDataframe ==
    /\ fcall.op = "preprocess_for_prediction_dataframe" /\ ~fcall.done
    /\ fcall' = [fcall EXCEPT !.done = TRUE,
                    !.out = preprocess_for_prediction_dataframe(fcall.args)]
    /\ UNCHANGED <<others, mcall, cache, table, nextId, ncalls, log, req>>

NextPre ==
    \/ CallFillDefaults
    \/ CallEncodeGender
    \/ CallPreprocess
    \/ CallPreprocessDataframe

SpecPre == InitPre /\ [][NextPre]_vars

(***************************************************************************)
(* Claims about the preprocessing functions, checked under SpecPre.        *)
(***************************************************************************)
BuilderDone(o) == fcall.op = o /\ fcall.done

Columns(a) == Range(a.numeric_columns) \cup Range(a.categorical_columns)

\* The value of feature k after defaulting and encoding, looked up directly.
FilledEncodedValue(a, k) ==
    LET v == fill_defaults(a.input_data, a.numeric_defaults, a.categorical_defaults)[k]
    IN  IF k = "PTGENDER" /\ k \in Range(a.categorical_columns)
        THEN encode_gender(v).val ELSE v

\* C4: when feature_order is a permutation of the numeric and categorical
\* columns and no scaler is given, every vector preprocess_for_prediction
\* returns has len(feature_order) entries and entry i is the (float of the)
\* filled and encoded value of feature_order[i], whatever the order in which
\* the two column lists name the features.
C4_VectorFollowsFeatureOrder ==
    (/\ BuilderDone("preprocess_for_prediction")
     /\ fcall.args.scaler = "none"
     /\ Range(fcall.args.feature_order) = Columns(fcall.args)
     /\ fcall.out.ok)
    => /\ Len(fcall.out.val) = Len(fcall.args.feature_order)
       /\ \A i \in DOMAIN fcall.args.feature_order :
            fcall.out.val[i]
                = ToFloat(FilledEncodedValue(fcall.args, fcall.args.feature_order[i]))

\* C4 witness: a three-feature vector was returned for a feature_order that
\* differs from the order of the column lists, with PTGENDER encoded to 0.
C4_Witness ==
    /\ BuilderDone("preprocess_for_prediction")
    /\ fcall.args.scaler = "none"
    /\ fcall.args.feature_order = <<"PTGENDER", "AGE", "APOE4">>
    /\ fcall.args.numeric_columns = <<"AGE">>
    /\ fcall.args.categorical_columns = <<"APOE4", "PTGENDER">>
    /\ fcall.out.ok
    /\ fcall.out.val = <<Num(0), Num(81), Num(-1)>>

Dict4(age, mmse, gender, apoe4) ==
    [k \in {"AGE", "MMSE_bl", "PTGENDER", "APOE4"} |->
        CASE k = "AGE" -> age [] k = "MMSE_bl" -> mmse [] k = "PTGENDER" -> gender
          [] OTHER -> apoe4]

\* C13: on the worked example (raw input {AGE: 81}, no scaler) fill_defaults
\* yields {AGE: 81, MMSE_bl: 28, PTGENDER: 'female', APOE4: -1} and
\* preprocess_for_prediction yields the vector [81, 28, 1, -1] in that order.
C13_WorkedExample ==
    /\ (fcall.op = "fill_defaults" /\ fcall.done
          /\ fcall.args.input_dict = WorkedExample.input_data
          /\ fcall.args.numeric_defaults = WorkedExample.numeric_defaults
          /\ fcall.args.categorical_defaults = WorkedExample.categorical_defaults)
        => fcall.out = Ret(Dict4(Num(81), Num(28), Str("female"), Num(-1)))
    /\ (BuilderDone("preprocess_for_prediction") /\ fcall.args = WorkedExample)
        => fcall.out = Ret(<<Num(81), Num(28), Num(1), Num(-1)>>)

\* C13 witness: the array builder has returned on the worked example, with
\* PTGENDER encoded to 1 in third place and APOE4 unencoded in fourth.
C13_Witness ==
    /\ BuilderDone("preprocess_for_prediction") /\ fcall.args = WorkedExample
    /\ fcall.out.ok
    /\ fcall.out.val[3] = Num(1) /\ fcall.out.val[4] = Num(-1)

\* C5: in both builders, a name of feature_order that is in neither column
\* list makes the builder raise; it never returns a vector or table.
C5_MissingFeatureRaises ==
    (/\ fcall.op \in BuilderOps /\ fcall.done
     /\ ~(Range(fcall.args.feature_order) \subseteq Columns(fcall.args)))
    => ~fcall.out.ok

\* Two values agree when they are equal, or equal as floats.
Agree(x, y) == x = y \/ (IsFloatable(x) /\ IsFloatable(y) /\ ToFloat(x) = ToFloat(y))

\* C6: on the same arguments (no scaler) the array builder and the table
\* builder both raise or both return, and what they return agrees position by
\* position.
C6_BuildersAgree ==
    (BuilderDone("preprocess_for_prediction") /\ fcall.args.scaler = "none")
    => LET df == preprocess_for_prediction_dataframe(fcall.args)
       IN  /\ fcall.out.ok <=> df.ok
           /\ fcall.out.ok =>
                /\ Len(fcall.out.val) = Len(df.val)
                /\ \A i \in DOMAIN df.val : Agree(fcall.out.val[i], df.val[i])

Missing(d, k) == k \notin DOMAIN d \/ d[k] = None

\* A column of the call with no provided value (absent or null) and no entry
\* in the defaults map of its kind.
Unfilled(a) ==
    {c \in Range(a.numeric_columns) :
        Missing(a.input_data, c) /\ c \notin DOMAIN a.numeric_defaults}
    \cup {c \in Range(a.categorical_columns) :
        Missing(a.input_data, c) /\ c \notin DOMAIN a.categorical_defaults}

\* C14: when a numeric or categorical column has neither a provided value nor
\* an entry in the corresponding defaults map, preprocess_for_prediction
\* raises and returns no vector.
C14_UnfilledColumnRaises ==
    (BuilderDone("preprocess_for_prediction") /\ Unfilled(fcall.args) # {})
    => ~fcall.out.ok

\* C15: in both builders the defaulting and encoding stages never raise
\* because of a categorical value: whatever a column of categorical_columns
\* holds after defaulting (a default, a null, an unrecognized string, a value
\* of another type), the encoding step leaves a defined numeric code for it.
C15_CategoricalEncodingTotal ==
    (fcall.op \in BuilderOps /\ fcall.done)
    => LET a == fcall.args
           enc == EncodeCategoricals(
                      fill_defaults(a.input_data, a.numeric_defaults, a.categorical_defaults),
                      a.categorical_columns)
       IN  /\ enc.ok
           /\ \A c \in Range(a.categorical_columns) :
                c \in DOMAIN enc.val => enc.val[c].t = "num"

\* C7: fill_defaults always returns; in the result every key of the default
\* maps holds its default when the input had no value or a null there (the
\* numeric default for a key of both maps) and the provided value otherwise,
\* keys outside the maps keep their value, and no defaulted key is null.
C7_FillDefaultsTotal ==
    (fcall.op = "fill_defaults" /\ fcall.done)
    => LET a == fcall.args
           r == fcall.out.val
       IN  /\ fcall.out.ok
           /\ DOMAIN r = DOMAIN a.input_dict \cup DOMAIN a.numeric_defaults
                            \cup DOMAIN a.categorical_defaults
           /\ \A k \in DOMAIN r :
                IF ~Missing(a.input_dict, k) THEN r[k] = a.input_dict[k]
                ELSE IF k \in DOMAIN a.numeric_defaults THEN r[k] = a.numeric_defaults[k]
                ELSE IF k \in DOMAIN a.categorical_defaults
                     THEN r[k] = a.categorical_defaults[k]
                ELSE r[k] = None
           /\ \A k \in DOMAIN a.numeric_defaults \cup DOMAIN a.categorical_defaults :
                r[k] # None

\* C7 witness: the input held an explicit null at one defaulted key, a value
\* at another and lacked a third; all three are set in the result.
C7_Witness ==
    /\ fcall.op = "fill_defaults" /\ fcall.done
    /\ fcall.args.input_dict = [k \in {"AGE", "PTGENDER"} |->
                                    IF k = "AGE" THEN None ELSE Str("Male")]
    /\ fcall.args.numeric_defaults = NumericTable
    /\ fcall.args.categorical_defaults = CategoricalTable
    /\ fcall.out.val = [k \in {"AGE", "PTGENDER", "APOE4"} |->
                            CASE k = "AGE" -> Num(75)
                              [] k = "PTGENDER" -> Str("Male")
                              [] OTHER -> Num(0)]

\* C24: fill_defaults has no side effects: the mapping passed to it is
\* unchanged after the call, and every key of the input that is in neither
\* default map (patient_id, say) is in the result with its original value.
C24_FillDefaultsLeavesInput ==
    (fcall.op = "fill_defaults" /\ fcall.done)
    => /\ fcall.after = fcall.args.input_dict
       /\ \A k \in DOMAIN fcall.args.input_dict :
            k \notin DOMAIN fcall.args.numeric_defaults \cup DOMAIN fcall.args.categorical_defaults
                => /\ k \in DOMAIN fcall.out.val
                   /\ fcall.out.val[k] = fcall.args.input_dict[k]

\* C24 witness: a call on {patient_id: 7, AGE: None} with both default tables
\* returned a dict with the defaults and the patient_id, and the caller's
\* dict still holds its null AGE and nothing more.
C24_Witness ==
    /\ fcall.op = "fill_defaults" /\ fcall.done
    /\ fcall.args.input_dict = [k \in {"patient_id", "AGE"} |->
                                    IF k = "AGE" THEN None ELSE Num(7)]
    /\ fcall.args.numeric_defaults = NumericTable
    /\ fcall.args.categorical_defaults = CategoricalTable
    /\ fcall.out.val["AGE"] = Num(75) /\ fcall.out.val["patient_id"] = Num(7)
    /\ DOMAIN fcall.out.val = {"patient_id", "AGE", "APOE4", "PTGENDER"}
    /\ fcall.after = fcall.args.input_dict

\* The builder of the call in fcall, applied to arguments b.
Build(b) ==
    IF fcall.op = "preprocess_for_prediction" THEN preprocess_for_prediction(b)
    ELSE preprocess_for_prediction_dataframe(b)

\* The arguments a with the input already filled from a's default maps.
PreFilled(a) ==
    [a EXCEPT !.input_data =
        fill_defaults(a.input_data, a.numeric_defaults, a.categorical_defaults)]

WithoutDefaults(a) == [a EXCEPT !.numeric_defaults = EmptyDict, !.categorical_defaults = EmptyDict]

\* C29: pre-filling is transparent to the builder: for a raw input x and
\* default maps N and C, the builder on fill_defaults(x, N, C) with empty
\* default maps, and with N and C again, gives what the builder gives on x
\* with N and C (the same vector or the same error); fill_defaults is
\* idempotent and the gender is encoded once on every path.
C29_PreFillingTransparent ==
    (fcall.op \in BuilderOps /\ fcall.done)
    => /\ Build(WithoutDefaults(PreFilled(fcall.args))) = fcall.out
       /\ Build(PreFilled(fcall.args)) = fcall.out
       /\ PreFilled(PreFilled(fcall.args)) = PreFilled(fcall.args)

\* C29 witness: the array builder returned [75, 0, -1] on a request without
\* AGE and APOE4 and with PTGENDER 'Male', which is also what it gives on the
\* pre-filled request with empty default maps.
C29_Witness ==
    /\ BuilderDone("preprocess_for_prediction")
    /\ fcall.args.input_data = [k \in {"PTGENDER"} |-> Str("Male")]
    /\ fcall.args.numeric_defaults = [k \in {"AGE"} |-> Num(75)]
    /\ fcall.args.categorical_defaults = CategoricalTable
    /\ fcall.args.scaler = "none"
    /\ fcall.args.feature_order = <<"AGE", "PTGENDER", "APOE4">>
    /\ fcall.args.numeric_columns = <<"AGE">>
    /\ fcall.args.categorical_columns = <<"PTGENDER", "APOE4">>
    /\ fcall.out = Ret(<<Num(75), Num(0), Num(-1)>>)
    /\ PreFilled(fcall.args).input_data["PTGENDER"] = Str("Male")
    /\ Build(WithoutDefaults(PreFilled(fcall.args))) = fcall.out

\* C8: encode_gender never raises and returns one of 0, 1, 2 for every value,
\* strings in any case and non-strings alike; male/m give 0, female/f give 1.
C8_EncodeGenderTotal ==
    (fcall.op = "encode_gender" /\ fcall.done)
    => /\ fcall.out.ok
       /\ fcall.out.val \in {Num(0), Num(1), Num(2)}
       /\ (fcall.args.t = "str" /\ Lower(fcall.args.s) \in {"male", "m"})
            => fcall.out.val = Num(0)
       /\ (fcall.args.t = "str" /\ Lower(fcall.args.s) \in {"female", "f"})
            => fcall.out.val = Num(1)

(***************************************************************************)
(* The shipped feature specs, as the four model modules define them        *)
(* (clinical/alzheimer/ml_models/diagnosis_basic.py:31-80,                 *)
(* diagnosis_extended.py:30-90, prognosis_2yr_basic.py:28-61,              *)
(* prognosis_2yr_extended.py:28-52).  Numeric defaults are written in      *)
(* tenths (10.5 is 105); categorical values are as in the source.          *)
(***************************************************************************)
BASIC_FEATURE_ORDER ==
    <<"AGE", "MMSE_bl", "CDRSB_bl", "FAQ_bl", "PTEDUCAT", "PTGENDER", "APOE4",
      "RAVLT_immediate_bl", "MOCA_bl", "ADAS13_bl">>

BASIC_NUMERIC_COLUMNS ==
    <<"AGE", "MMSE_bl", "CDRSB_bl", "FAQ_bl", "PTEDUCAT", "RAVLT_immediate_bl", "MOCA_bl",
      "ADAS13_bl">>

BASIC_NUMERIC_DEFAULTS ==
    ZipDict(BASIC_NUMERIC_COLUMNS,
            <<Num(750), Num(280), Num(5), Num(0), Num(160), Num(400), Num(260), Num(105)>>)

EXTENDED_FEATURE_ORDER ==
    <<"AGE", "MMSE_bl", "CDRSB_bl", "FAQ_bl", "PTEDUCAT", "PTGENDER", "APOE4",
      "RAVLT_immediate_bl", "MOCA_bl", "ADAS13_bl", "Hippocampus_bl", "Ventricles_bl",
      "WholeBrain_bl", "Entorhinal_bl", "FDG_bl", "AV45_bl", "PIB_bl", "FBB_bl", "ABETA_bl",
      "TAU_bl", "PTAU_bl", "mPACCdigit_bl", "mPACCtrailsB_bl">>

\* [c for c in feature_order if c not in excluded] (diagnosis_extended.py:56)
ColumnsExcept_keeps_all(feature_order, excluded) == feature_order

ColumnsExcept(feature_order, excluded) ==
    SelectSeq(feature_order, LAMBDA c : c \notin excluded)

EXTENDED_NUMERIC_COLUMNS == ColumnsExcept(EXTENDED_FEATURE_ORDER, {"PTGENDER", "APOE4"})

EXTENDED_NUMERIC_DEFAULTS ==
    ZipDict(<<"AGE", "MMSE_bl", "CDRSB_bl", "FAQ_bl", "PTEDUCAT", "RAVLT_immediate_bl",
              "MOCA_bl", "ADAS13_bl", "Hippocampus_bl", "Ventricles_bl", "WholeBrain_bl",
              "Entorhinal_bl", "FDG_bl", "AV45_bl", "PIB_bl", "FBB_bl", "ABETA_bl", "TAU_bl",
              "PTAU_bl", "mPACCdigit_bl", "mPACCtrailsB_bl">>,
            <<Num(750), Num(280), Num(5), Num(0), Num(160), Num(400),
              Num(260), Num(105), Num(35000), Num(400000), Num(10000000),
              Num(30000), Num(11), Num(10), Num(10), Num(10), Num(8000), Num(2500),
              Num(250), Num(0), Num(0)>>)

DIAGNOSIS_CATEGORICAL_DEFAULTS ==
    ZipDict(<<"PTGENDER", "APOE4">>, <<Str("female"), Num(-1)>>)

PROGRESS_BASIC_FEATURE_ORDER ==
    <<"AGE", "PTGENDER", "PTEDUCAT", "ADAS13", "MOCA", "CDRSB", "FAQ", "APOE4_count",
      "GDTOTAL">>

PROGRESS_BASIC_NUMERIC_COLUMNS ==
    <<"AGE", "PTEDUCAT", "ADAS13", "MOCA", "CDRSB", "FAQ", "GDTOTAL">>

PROGRESS_BASIC_NUMERIC_DEFAULTS ==
    ZipDict(PROGRESS_BASIC_NUMERIC_COLUMNS,
            <<Num(750), Num(160), Num(105), Num(260), Num(5), Num(0), Num(50)>>)

PROGRESS_EXTENDED_FEATURE_ORDER ==
    <<"AGE", "PTGENDER", "PTEDUCAT", "ADAS13", "CDRSB", "FAQ", "APOE4_count", "GDTOTAL",
      "ABETA", "TAU", "PTAU">>

PROGRESS_EXTENDED_NUMERIC_COLUMNS ==
    <<"AGE", "PTEDUCAT", "ADAS13", "CDRSB", "FAQ", "GDTOTAL", "ABETA", "TAU", "PTAU">>

PROGRESS_EXTENDED_NUMERIC_DEFAULTS ==
    ZipDict(PROGRESS_EXTENDED_NUMERIC_COLUMNS,
            <<Num(750), Num(160), Num(105), Num(5), Num(0), Num(50), Num(7000), Num(3000),
              Num(500)>>)

PROGNOSIS_CATEGORICAL_DEFAULTS ==
    ZipDict(<<"PTGENDER", "APOE4_count">>, <<Str("female"), Num(0)>>)

FeatureSpec(name, fo, nc, cc, nd, cd) ==
    [name |-> name, feature_order |-> fo, numeric_columns |-> nc,
     categorical_columns |-> cc, numeric_defaults |-> nd, categorical_defaults |-> cd]

ShippedSpecs ==
    { FeatureSpec("diagnosis_basic", BASIC_FEATURE_ORDER, BASIC_NUMERIC_COLUMNS,
                  <<"PTGENDER", "APOE4">>, BASIC_NUMERIC_DEFAULTS,
                  DIAGNOSIS_CATEGORICAL_DEFAULTS),
      FeatureSpec("diagnosis_extended", EXTENDED_FEATURE_ORDER, EXTENDED_NUMERIC_COLUMNS,
                  <<"PTGENDER", "APOE4">>, EXTENDED_NUMERIC_DEFAULTS,
                  DIAGNOSIS_CATEGORICAL_DEFAULTS),
      FeatureSpec("prognosis_2yr_basic", PROGRESS_BASIC_FEATURE_ORDER,
                  PROGRESS_BASIC_NUMERIC_COLUMNS, <<"PTGENDER", "APOE4_count">>,
                  PROGRESS_BASIC_NUMERIC_DEFAULTS, PROGNOSIS_CATEGORICAL_DEFAULTS),
      FeatureSpec("prognosis_2yr_extended", PROGRESS_EXTENDED_FEATURE_ORDER,
                  PROGRESS_EXTENDED_NUMERIC_COLUMNS, <<"PTGENDER", "APOE4_count">>,
                  PROGRESS_EXTENDED_NUMERIC_DEFAULTS, PROGNOSIS_CATEGORICAL_DEFAULTS) }

(***************************************************************************)
(* SpecShipped: the preprocessing functions called with a shipped spec on  *)
(* requests that give, null or omit the age, the gender and the spec's     *)
(* second categorical field.                                               *)
(***************************************************************************)
ShippedValuesAt(k) ==
    CASE k = "AGE" -> {None, Num(810)}
      [] k = "PTGENDER" -> {None, Str("Male"), Str("xyz")}
      [] OTHER -> {None, Num(1)}

ShippedInputs(s) ==
    LET keys == {"AGE", "PTGENDER", s.categorical_columns[2]}
    IN  UNION {{d \in [S -> {None, Num(810), Num(1), Str("Male"), Str("xyz")}] :
                    \A k \in S : d[k] \in ShippedValuesAt(k)} : S \in SUBSET keys}

InitShipped ==
    /\ \E s \in ShippedSpecs : \E d \in ShippedInputs(s) :
        \/ fcall = [op |-> "fill_defaults", done |-> FALSE,
                    args |-> [input_dict |-> d, numeric_defaults |-> s.numeric_defaults,
                              categorical_defaults |-> s.categorical_defaults],
                    out |-> None, after |-> None]
        \/ \E o \in BuilderOps :
            fcall = [op |-> o, done |-> FALSE,
                     args |-> [input_data |-> d, numeric_defaults |-> s.numeric_defaults,
                               categorical_defaults |-> s.categorical_defaults,
                               feature_order |-> s.feature_order,
                               numeric_columns |-> s.numeric_columns,
                               categorical_columns |-> s.categorical_columns,
                               scaler |-> "none"],
                     out |-> None]
    /\ mcall = None
    /\ PipeIdle

NextShipped ==
    \/ CallFillDefaults
    \/ CallPreprocess
    \/ CallPreprocessDataframe

SpecShipped == InitShipped /\ [][NextShipped]_vars

\* The columns and default maps of a builder call fit its feature_order.
SpecConsistent(a) ==
    /\ \A i \in DOMAIN a.feature_order :
        (a.feature_order[i] \in Range(a.numeric_columns))
            # (a.feature_order[i] \in Range(a.categorical_columns))
    /\ Range(a.numeric_columns) \cap Range(a.categorical_columns) = {}
    /\ Range(a.numeric_columns) \cup Range(a.categorical_columns) = Range(a.feature_order)
    /\ Range(a.numeric_columns) \subseteq DOMAIN a.numeric_defaults
    /\ Range(a.categorical_columns) \subseteq DOMAIN a.categorical_defaults

\* C22: for each shipped spec (diagnosis basic and extended, prognosis 2yr
\* basic and extended) every name of feature_order is in exactly one of
\* numeric_columns and categorical_columns, the two lists are disjoint and
\* together are the names of feature_order, and every numeric column has a
\* numeric default and every categorical column a categorical default.
C22_ShippedSpecsConsistent ==
    /\ \A s \in ShippedSpecs : SpecConsistent(s)
    /\ fcall.op \in BuilderOps => SpecConsistent(fcall.args)

\* C22 witness: the array builder, called with the extended diagnosis spec on
\* an empty request, has returned its 23 defaults in feature order.
C22_Witness ==
    /\ BuilderDone("preprocess_for_prediction")
    /\ fcall.args.feature_order = EXTENDED_FEATURE_ORDER
    /\ fcall.args.numeric_columns = EXTENDED_NUMERIC_COLUMNS
    /\ fcall.args.input_data = EmptyDict
    /\ SpecConsistent(fcall.args)
    /\ fcall.out.ok
    /\ Len(fcall.out.val) = 23
    /\ fcall.out.val[6] = Num(1) /\ fcall.out.val[7] = Num(-1)
    /\ fcall.out.val[23] = Num(0)

(***************************************************************************)
(* The model functions (clinical/alzheimer/ml_models/*.py and              *)
(* clinical/cardiology/ascvd.py).  What the code cannot decide is drawn    *)
(* as the environment env of a call: whether load_model succeeds, whether  *)
(* the loaded scaler transforms, and what predict_proba gives.             *)
(* Probabilities are in percent (0.20 is 20), ASCVD risk in tenths of a    *)
(* percent (7.5 is 75).  The feature specs are cut to one numeric column   *)
(* (AGE), the encoded categorical (PTGENDER) and one plain categorical     *)
(* (APOE4, APOE4_count in the prognosis models).                           *)
(***************************************************************************)
CLASS_NAMES == <<"CN", "MCI", "AD">>
PROGNOSIS_CLASS_NAMES == <<"Stable", "Progress">>

FEATURE_ORDER == <<"AGE", "PTGENDER", "APOE4">>
NUMERIC_COLUMNS == <<"AGE">>
CATEGORICAL_COLUMNS == <<"PTGENDER", "APOE4">>
NUMERIC_DEFAULTS == [k \in {"AGE"} |-> Num(75)]
CATEGORICAL_DEFAULTS == CategoricalTable

\* load_model (clinical/utils.py:230-282): the pair (model, preprocessor), or
\* an error when the bucket is not configured or a download or load fails.
load_model(env) ==
    IF env.load = "raises" THEN Raise("RuntimeError", "load_model") ELSE Ret(env.scaler)

\* model.predict_proba(X)[0]
predict_proba(env, X) ==
    IF env.predict = "raises" THEN Raise("ValueError", "predict_proba") ELSE Ret(env.proba)

\* log_usage(function_name, metadata=None, result=None), called with the set
\* kw of parameter names its arguments bind; any other keyword is a TypeError.
log_usage(kw) ==
    IF kw \subseteq {"function_name", "metadata", "result"}
    THEN Ret(None) ELSE Raise("TypeError", "log_usage")

\* int(np.argmax(y)) and float(np.max(y)): nan propagates, the first nan is
\* the argmax.
HasNaN(y) == \E i \in DOMAIN y : y[i] = NaN

ArgMax(y) ==
    IF HasNaN(y) THEN CHOOSE i \in DOMAIN y : y[i] = NaN /\ \A j \in 1..(i - 1) : y[j] # NaN
    ELSE CHOOSE i \in DOMAIN y :
            /\ \A j \in DOMAIN y : y[j].n <= y[i].n
            /\ \A j \in 1..(i - 1) : y[j].n < y[i].n

MaxOf(y) == IF HasNaN(y) THEN NaN ELSE y[ArgMax(y)]

\* dict(zip(names, y))
ZipProba(names, y) == [c \in Range(names) |-> y[CHOOSE i \in DOMAIN names : names[i] = c]]

\* confloat(ge=0.0, le=1.0)
IsUnitFloat(v) == v.t = "num" /\ 0 <= v.n /\ v.n <= 100

\* Construction of a diagnosis output (schemas/alzheimer/diagnosis_basic.py:
\* 35-42 and its extended and screening twins): predicted_class is a required
\* Literal, confidence and the probabilities are constrained floats; status
\* and error take the defaults of PredictionResponseBase unless given.
AlzheimerDiagnosisOutput(patient_id, predicted_class, confidence, probabilities, error) ==
    IF \/ predicted_class \notin {Str(CLASS_NAMES[i]) : i \in DOMAIN CLASS_NAMES}
       \/ ~IsUnitFloat(confidence)
       \/ \E c \in DOMAIN probabilities : ~IsUnitFloat(probabilities[c])
    THEN Raise("ValidationError", "AlzheimerDiagnosisOutput")
    ELSE Ret([schema |-> "diagnosis", patient_id |-> patient_id,
              predicted_class |-> predicted_class, confidence |-> confidence,
              probabilities |-> probabilities, status |-> "success", error |-> error])

\* Construction of a prognosis output (schemas/alzheimer/prognosis_2yr_basic.py:
\* 32-64): every predictive field is Optional, nothing is constrained.
AlzheimerPrognosis2yrOutput(patient_id, prob_progress, prob_stable, risk_level, error) ==
    Ret([schema |-> "prognosis", patient_id |-> patient_id,
         probability_progression_to_AD_within_2yrs |-> prob_progress,
         probability_stable_within_2yrs |-> prob_stable,
         risk_level |-> risk_level, status |-> "success", error |-> error])

\* Construction of ASCVDRiskOutput (schemas/cardiology.py:32-36).
ASCVDRiskOutput(patient_id, risk_percentage, risk_category) ==
    IF \/ risk_percentage.t # "num" \/ risk_percentage.n < 0 \/ risk_percentage.n > 1000
       \/ risk_category \notin {"low", "borderline", "intermediate", "high"}
    THEN Raise("ValidationError", "ASCVDRiskOutput")
    ELSE Ret([schema |-> "ascvd", patient_id |-> patient_id,
              risk_percentage |-> risk_percentage, risk_category |-> risk_category,
              status |-> "success", error |-> None])

PatientId(input_data) ==
    IF "patient_id" \in DOMAIN input_data THEN input_data["patient_id"] ELSE None

\* The builder arguments a model function passes.
BuilderArgs(input_data, nd, cd, scaler) ==
    [input_data |-> input_data, numeric_defaults |-> nd, categorical_defaults |-> cd,
     feature_order |-> FEATURE_ORDER, numeric_columns |-> NUMERIC_COLUMNS,
     categorical_columns |-> CATEGORICAL_COLUMNS, scaler |-> scaler]

\* The tail shared by the diagnosis models: argmax, probabilities, log_usage,
\* output construction.
DiagnosisResult(input_data, y_proba) ==
    LET lg == log_usage({"function_name", "metadata", "result"})
    IN  IF ~lg.ok THEN lg
        ELSE AlzheimerDiagnosisOutput(PatientId(input_data),
                                      Str(CLASS_NAMES[ArgMax(y_proba)]), MaxOf(y_proba),
                                      ZipProba(CLASS_NAMES, y_proba), None)

\* The except branch of the two diagnosis models (diagnosis_basic.py:145-158).
DiagnosisFailure(input_data, e) ==
    LET lg == log_usage({"function_name", "metadata", "result"})
    IN  IF ~lg.ok THEN lg
        ELSE AlzheimerDiagnosisOutput(PatientId(input_data), None, Num(0), EmptyDict,
                                      Str(e.err))

\* predict_cognitive_status_basic: the try body (diagnosis_basic.py:89-143),
\* then the whole function.
predict_cognitive_status_basic_try(input_data, env) ==
    LET m == load_model(env)
    IN  IF ~m.ok THEN m ELSE
        LET X == preprocess_for_prediction(
                    BuilderArgs(input_data, NUMERIC_DEFAULTS, CATEGORICAL_DEFAULTS, m.val))
        IN  IF ~X.ok THEN X ELSE
            LET y == predict_proba(env, X.val)
            IN  IF ~y.ok THEN y ELSE DiagnosisResult(input_data, y.val)

predict_cognitive_status_basic(input_data, env) ==
    LET body == predict_cognitive_status_basic_try(input_data, env)
    IN  IF body.ok THEN body ELSE DiagnosisFailure(input_data, body)

\* predict_cognitive_status_extended (diagnosis_extended.py:93-173): fills the
\* defaults itself and hands the builder empty default maps.
predict_cognitive_status_extended_try(input_data, env) ==
    LET m == load_model(env)
    IN  IF ~m.ok THEN m ELSE
        LET input_filled == fill_defaults(input_data, NUMERIC_DEFAULTS, CATEGORICAL_DEFAULTS)
            X == preprocess_for_prediction(
                    BuilderArgs(input_filled, EmptyDict, EmptyDict, m.val))
        IN  IF ~X.ok THEN X ELSE
            LET y == predict_proba(env, X.val)
            IN  IF ~y.ok THEN y ELSE DiagnosisResult(input_data, y.val)

predict_cognitive_status_extended(input_data, env) ==
    LET body == predict_cognitive_status_extended_try(input_data, env)
    IN  IF body.ok THEN body ELSE DiagnosisFailure(input_data, body)

\* predict_cognitive_status (diagnosis_screening.py:43-106): no try around the
\* feature check and load_model, and the except around predict_proba re-raises.
SCREENING_FEATURE_ORDER == <<"age", "gender", "race">>

predict_cognitive_status(input_data, env) ==
    IF \E i \in DOMAIN SCREENING_FEATURE_ORDER :
            SCREENING_FEATURE_ORDER[i] \notin DOMAIN input_data
    THEN Raise("ValueError", "missing_features") ELSE
    LET m == load_model(env)
    IN  IF ~m.ok THEN m ELSE
        LET y == predict_proba(env, input_data)
        IN  IF ~y.ok THEN y ELSE DiagnosisResult(input_data, y.val)

\* Risk level of the prognosis models (prognosis_2yr_basic.py:122-127); a
\* comparison with nan is false, so nan falls through to "high".
RiskLevel(prob_progress) ==
    IF prob_progress.t = "num" /\ prob_progress.n < 20 THEN "low"
    ELSE IF prob_progress.t = "num" /\ prob_progress.n < 50 THEN "moderate"
    ELSE "high"

PrognosisResult(input_data, y_proba) ==
    LET probabilities == ZipProba(PROGNOSIS_CLASS_NAMES, y_proba)
        lg == log_usage({"function_name", "metadata", "result"})
    IN  IF ~lg.ok THEN lg
        ELSE AlzheimerPrognosis2yrOutput(PatientId(input_data), probabilities["Progress"],
                                         probabilities["Stable"],
                                         Str(RiskLevel(probabilities["Progress"])), None)

\* The except branch of the two prognosis models (prognosis_2yr_basic.py:
\* 166-182): status is not passed and keeps its default.
PrognosisFailure(input_data, e) ==
    LET lg == log_usage({"function_name", "metadata", "result"})
    IN  IF ~lg.ok THEN lg
        ELSE AlzheimerPrognosis2yrOutput(PatientId(input_data), None, None, Str("unknown"),
                                         Str(e.err))

\* predict_prognosis_2yr_basic (prognosis_2yr_basic.py:67-182): the table
\* builder on the pre-filled input.
predict_prognosis_2yr_basic_try(input_data, env) ==
    LET m == load_model(env)
    IN  IF ~m.ok THEN m ELSE
        LET input_filled == fill_defaults(input_data, NUMERIC_DEFAULTS, CATEGORICAL_DEFAULTS)
            X == preprocess_for_prediction_dataframe(
                    BuilderArgs(input_filled, NUMERIC_DEFAULTS, CATEGORICAL_DEFAULTS, m.val))
        IN  IF ~X.ok THEN X ELSE
            LET y == predict_proba(env, X.val)
            IN  IF ~y.ok THEN y ELSE PrognosisResult(input_data, y.val)

predict_prognosis_2yr_basic(input_data, env) ==
    LET body == predict_prognosis_2yr_basic_try(input_data, env)
    IN  IF body.ok THEN body ELSE PrognosisFailure(input_data, body)

\* predict_prognosis_2yr_extended (prognosis_2yr_extended.py:58-173): the
\* array builder on the pre-filled input.
predict_prognosis_2yr_extended_try(input_data, env) ==
    LET m == load_model(env)
    IN  IF ~m.ok THEN m ELSE
        LET input_filled == fill_defaults(input_data, NUMERIC_DEFAULTS, CATEGORICAL_DEFAULTS)
            X == preprocess_for_prediction(
                    BuilderArgs(input_filled, NUMERIC_DEFAULTS, CATEGORICAL_DEFAULTS, m.val))
        IN  IF ~X.ok THEN X ELSE
            LET y == predict_proba(env, X.val)
            IN  IF ~y.ok THEN y ELSE PrognosisResult(input_data, y.val)

predict_prognosis_2yr_extended(input_data, env) ==
    LET body == predict_prognosis_2yr_extended_try(input_data, env)
    IN  IF body.ok THEN body ELSE PrognosisFailure(input_data, body)

\* _validate_input (cardiology/ascvd.py:23-36), on the fields the model keeps.
validate_input(data) ==
    IF ~(40 <= data["age"].n /\ data["age"].n <= 79)
    THEN Raise("ValueError", "_validate_input")
    ELSE IF Lower(data["gender"].s) \notin {"male", "female"}
    THEN Raise("ValueError", "_validate_input")
    ELSE IF Lower(data["race"].s) \notin {"white", "black", "hispanic", "asian", "other"}
    THEN Raise("ValueError", "_validate_input")
    ELSE Ret(None)

\* _categorize_risk (cardiology/ascvd.py:104-113), in tenths of a percent.
categorize_risk(risk_pct) ==
    IF risk_pct >= 200 THEN "high"
    ELSE IF risk_pct >= 75 THEN "intermediate"
    ELSE IF risk_pct >= 50 THEN "borderline"
    ELSE "low"

\* calculate_ascvd (cardiology/ascvd.py:119-170).  The pooled cohort equation
\* is real arithmetic on logarithms; its rounded result is env.risk_pct.  The
\* except branch calls log_usage with the keywords inputs= and outputs=.
calculate_ascvd_try(data, env) ==
    LET v == validate_input(data)
    IN  IF ~v.ok THEN v ELSE
        LET lg == log_usage({"function_name", "metadata", "result"})
        IN  IF ~lg.ok THEN lg
            ELSE ASCVDRiskOutput(PatientId(data), Num(env.risk_pct),
                                 categorize_risk(env.risk_pct))

calculate_ascvd(data, env) ==
    LET body == calculate_ascvd_try(data, env)
    IN  IF body.ok THEN body ELSE
        LET lg == log_usage({"function_name", "inputs", "outputs"})
        IN  IF ~lg.ok THEN lg
            ELSE ASCVDRiskOutput(PatientId(data), Num(0), "low")

(***************************************************************************)
(* SpecModel: one call of a model function on an input its schema admits,  *)
(* under every environment.                                                *)
(***************************************************************************)
PatientIds == {None, Num(7)}

MkInput(pid, age, gender, apoe4) ==
    [k \in {"patient_id", "AGE", "PTGENDER", "APOE4"} |->
        CASE k = "patient_id" -> pid
          [] k = "AGE" -> age
          [] k = "PTGENDER" -> gender
          [] OTHER -> apoe4]

\* AlzheimerDiagnosisBasicInput: PTGENDER is any str, APOE4 an int in -1..2.
DiagnosisBasicInputs ==
    {MkInput(pid, Num(81), Str(g), Num(a)) :
        pid \in PatientIds, g \in {"male", "Male", "xyz"}, a \in {-1, 1}}

\* AlzheimerDiagnosisExtendedInput and AlzheimerPrognosis2yrBasicInput: all
\* three fields required, PTGENDER a Literal.
RequiredInputs ==
    {MkInput(pid, Num(81), Str(g), Num(a)) :
        pid \in PatientIds, g \in {"male", "female"}, a \in {0, 1}}

\* AlzheimerPrognosis2yrExtendedInput: every field Optional (None when unset).
OptionalInputs ==
    {MkInput(pid, age, g, a) :
        pid \in PatientIds, age \in {None, Num(81)},
        g \in {None, Str("male"), Str("female")}, a \in {None, Num(1)}}

\* AlzheimerDiagnosisInput (screening): gender a Literal, race a Literal int.
ScreeningInputs ==
    {[k \in {"patient_id", "age", "gender", "race"} |->
        CASE k = "patient_id" -> pid [] k = "age" -> Num(70)
          [] k = "gender" -> Str(g) [] OTHER -> Num(r)] :
        pid \in PatientIds, g \in {"male", "female"}, r \in {1, 2}}

\* ASCVDRiskInput; calculate_ascvd validates the ranges again, so an object
\* built without validation (age 39) is drawn too.
ASCVDInputs ==
    {[k \in {"patient_id", "age", "gender", "race"} |->
        CASE k = "patient_id" -> pid [] k = "age" -> Num(age)
          [] k = "gender" -> Str(g) [] OTHER -> Str(r)] :
        pid \in PatientIds, age \in {39, 55}, g \in {"male", "female"},
        r \in {"white", "black", "other"}}

Proba3 == {<<Num(70), Num(20), Num(10)>>, <<Num(10), Num(20), Num(70)>>,
           <<Num(40), Num(40), Num(20)>>, <<NaN, NaN, NaN>>}
Proba2 == {<<Num(90), Num(10)>>, <<Num(65), Num(35)>>, <<Num(30), Num(70)>>, <<NaN, NaN>>}
RiskPcts == {30, 60, 100, 250}

MlEnvs(probas) ==
    {[load |-> l, scaler |-> sc, predict |-> p, proba |-> pr] :
        l \in {"ok", "raises"}, sc \in {"affine", "raises"}, p \in {"ok", "raises"},
        pr \in probas}

ModelInputs(fn) ==
    CASE fn = "predict_cognitive_status_basic" -> DiagnosisBasicInputs
      [] fn = "predict_cognitive_status_extended" -> RequiredInputs
      [] fn = "predict_cognitive_status" -> ScreeningInputs
      [] fn = "predict_prognosis_2yr_basic" -> RequiredInputs
      [] fn = "predict_prognosis_2yr_extended" -> OptionalInputs
      [] OTHER -> ASCVDInputs

ModelEnvs(fn) ==
    CASE fn \in {"predict_cognitive_status_basic", "predict_cognitive_status_extended",
                 "predict_cognitive_status"} -> MlEnvs(Proba3)
      [] fn \in {"predict_prognosis_2yr_basic", "predict_prognosis_2yr_extended"}
            -> MlEnvs(Proba2)
      [] OTHER -> {[risk_pct |-> r] : r \in RiskPcts}

ModelFunctions ==
    {"predict_cognitive_status_basic", "predict_cognitive_status_extended",
     "predict_cognitive_status", "predict_prognosis_2yr_basic",
     "predict_prognosis_2yr_extended", "calculate_ascvd"}

InitModel ==
    /\ \E fn \in ModelFunctions :
        \E inp \in ModelInputs(fn), env \in ModelEnvs(fn) :
            mcall = [fn |-> fn, input |-> inp, env |-> env, done |-> FALSE,
                     body |-> None, out |-> None]
    /\ fcall = None
    /\ PipeIdle

\* A finished call records the outcome of the try body (body) and what the
\* caller got (out).
CallDiagnosisBasic ==
    /\ mcall.fn = "predict_cognitive_status_basic" /\ ~mcall.done
    /\ mcall' = [mcall EXCEPT !.done = TRUE,
                    !.body = predict_cognitive_status_basic_try(mcall.input, mcall.env),
                    !.out = predict_cognitive_status_basic(mcall.input, mcall.env)]
    /\ UNCHANGED <<others, fcall, cache, table, nextId, ncalls, log, req>>

CallDiagnosisExtended ==
    /\ mcall.fn = "predict_cognitive_status_extended" /\ ~mcall.done
    /\ mcall' = [mcall EXCEPT !.done = TRUE,
                    !.body = predict_cognitive_status_extended_try(mcall.input, mcall.env),
                    !.out = predict_cognitive_status_extended(mcall.input, mcall.env)]
    /\ UNCHANGED <<others, fcall, cache, table, nextId, ncalls, log, req>>

CallDiagnosisScreening ==
    /\ mcall.fn = "predict_cognitive_status" /\ ~mcall.done
    /\ mcall' = [mcall EXCEPT !.done = TRUE,
                    !.body = predict_cognitive_status(mcall.input, mcall.env),
                    !.out = predict_cognitive_status(mcall.input, mcall.env)]
    /\ UNCHANGED <<others, fcall, cache, table, nextId, ncalls, log, req>>

CallPrognosisBasic ==
    /\ mcall.fn = "predict_prognosis_2yr_basic" /\ ~mcall.done
    /\ mcall' = [mcall EXCEPT !.done = TRUE,
                    !.body = predict_prognosis_2yr_basic_try(mcall.input, mcall.env),
                    !.out = predict_prognosis_2yr_basic(mcall.input, mcall.env)]
    /\ UNCHANGED <<others, fcall, cache, table, nextId, ncalls, log, req>>

CallPrognosisExtended ==
    /\ mcall.fn = "predict_prognosis_2yr_extended" /\ ~mcall.done
    /\ mcall' = [mcall EXCEPT !.done = TRUE,
                    !.body = predict_prognosis_2yr_extended_try(mcall.input, mcall.env),
                    !.out = predict_prognosis_2yr_extended(mcall.input, mcall.env)]
    /\ UNCHANGED <<others, fcall, cache, table, nextId, ncalls, log, req>>

CallAscvd ==
    /\ mcall.fn = "calculate_ascvd" /\ ~mcall.done
    /\ mcall' = [mcall EXCEPT !.done = TRUE,
                    !.body = calculate_ascvd_try(mcall.input, mcall.env),
                    !.out = calculate_ascvd(mcall.input, mcall.env)]
    /\ UNCHANGED <<others, fcall, cache, table, nextId, ncalls, log, req>>

NextModel ==
    \/ CallDiagnosisBasic
    \/ CallDiagnosisExtended
    \/ CallDiagnosisScreening
    \/ CallPrognosisBasic
    \/ CallPrognosisExtended
    \/ CallAscvd

SpecModel == InitModel /\ [][NextModel]_vars

(***************************************************************************)
(* Claims about the model functions, checked under SpecModel.              *)
(***************************************************************************)
\* A step of the function's body raised (anything but the construction of the
\* output object).
StepRaised == mcall.done /\ ~mcall.body.ok /\ mcall.body.err # "ValidationError"

\* The call went through the function's except branch and returned from it.
ReturnedFromFailurePath ==
    /\ mcall.done /\ mcall.fn # "predict_cognitive_status"
    /\ ~mcall.body.ok /\ mcall.out.ok

\* The predictive fields of a result are null or placeholders.
PredictiveFieldsNull(r) ==
    CASE r.schema = "diagnosis" -> r.predicted_class = None
      [] r.schema = "prognosis" ->
            /\ r.probability_progression_to_AD_within_2yrs = None
            /\ r.probability_stable_within_2yrs = None
      [] OTHER -> r.risk_percentage = Num(0)

\* C9: when model loading, preprocessing or predict_proba raises inside any of
\* the six model functions, the function still returns a result object: no
\* exception reaches the caller.
C9_NoExceptionReachesCaller == StepRaised => mcall.out.ok

\* C10: a result returned from a failure path has status = error, a non-null
\* error message and null predictive fields; a result with status = success
\* carries no error message.
C10_FailureResultIsError ==
    /\ ReturnedFromFailurePath =>
            /\ mcall.out.val.status = "error"
            /\ mcall.out.val.error # None
            /\ PredictiveFieldsNull(mcall.out.val)
    /\ (mcall.done /\ mcall.out.ok /\ mcall.out.val.status = "success")
            => mcall.out.val.error = None

\* The classifier of the call was reached and returned a vector with a nan.
ClassifierGaveNaN ==
    /\ mcall.done /\ mcall.fn # "calculate_ascvd"
    /\ mcall.env.load = "ok" /\ mcall.env.predict = "ok"
    /\ HasNaN(mcall.env.proba)
    /\ mcall.fn = "predict_cognitive_status" \/ mcall.env.scaler # "raises"

\* C21: when the classifier returns a NaN probability the model function
\* treats it as a failure: what it returns, if anything, carries an error
\* message and null predictive fields, never probabilities, a confidence or a
\* risk level computed from the NaN.
C21_NaNProbabilityIsFailure ==
    (ClassifierGaveNaN /\ mcall.out.ok)
    => /\ mcall.out.val.error # None
       /\ PredictiveFieldsNull(mcall.out.val)

(***************************************************************************)
(* The result cache (services/alzheimer/cache.py), the assessment          *)
(* repository (db/repositories/assessment_repository.py), the pipeline     *)
(* (services/assessment_pipeline.py) and the endpoint factory              *)
(* (api/routes/utils/assessment_endpoint.py).                              *)
(***************************************************************************)
\* d[k] = v on a dict.
SetItem(d, k, v) == [x \in DOMAIN d \cup {k} |-> IF x = k THEN v ELSE d[x]]

\* func.__name__: each model function is a def under its own name.
FuncName(fn) == fn

\* _make_key(func.__name__, input_schema) (cache.py:14-20): the digest of the
\* JSON text of the function name and of str(input_schema), the text pydantic
\* gives a model: every field with its value, without the class.  The digest
\* is taken as collision free.
make_key(name, input_schema) == [name |-> name, data |-> input_schema]

ModelFunction(fn, input_schema, env) ==
    CASE fn = "predict_cognitive_status" -> predict_cognitive_status(input_schema, env)
      [] fn = "predict_prognosis_2yr_basic" -> predict_prognosis_2yr_basic(input_schema, env)

\* One invocation of the underlying function: the output object it builds
\* gets a fresh prediction_id (uuid4, schemas/common.py:55-58).
Stamp(o, uid) ==
    IF o.ok THEN Ret(SetItem(o.val, "prediction_id", [t |-> "uuid", n |-> uid])) ELSE o

Invoke(fn, input_schema, env, uid) == Stamp(ModelFunction(fn, input_schema, env), uid)

\* A call of the wrapper cache_result builds (cache.py:26-32) on cache c: the
\* outcome, the cache afterwards and whether the underlying function ran.
cache_result_never_stores(c, fn, input_schema, env, uid) ==
    [out |-> Invoke(fn, input_schema, env, uid), cache |-> c, invoked |-> TRUE]

\* _cache[key] = result, reached only when func returned.
Stored_only_successes(c, key, result) ==
    IF result.ok /\ result.val.error = None
    THEN [out |-> result, cache |-> SetItem(c, key, result.val), invoked |-> TRUE]
    ELSE [out |-> result, cache |-> c, invoked |-> TRUE]

Stored(c, key, result) ==
    IF result.ok
    THEN [out |-> result, cache |-> SetItem(c, key, result.val), invoked |-> TRUE]
    ELSE [out |-> result, cache |-> c, invoked |-> TRUE]

cache_result(c, fn, input_schema, env, uid) ==
    LET key == make_key(FuncName(fn), input_schema)
    IN  IF key \in DOMAIN c
        THEN [out |-> Ret(c[key]), cache |-> c, invoked |-> FALSE]
        ELSE Stored(c, key, Invoke(fn, input_schema, env, uid))

\* model_dump(mode="json"): the fields as JSON values; a UUID becomes its text.
model_dump(obj) ==
    [k \in DOMAIN obj |->
        IF k = "prediction_id" THEN [t |-> "uuidstr", n |-> obj[k].n] ELSE obj[k]]

\* model_name.split("_")[0]: the text before the first underscore, the whole
\* name when it has none (as the names the Alzheimer services pass).
SplitFirst(model_name) ==
    CASE model_name = "cardiology_ascvd" -> "cardiology"
      [] OTHER -> model_name

\* AssessmentRepository.create (assessment_repository.py:14-62) on the table
\* tbl.  kwargs is the dict of keyword arguments; specialty, assessment_type,
\* clinician_id, patient_id and input_data have no default.  db says how the
\* session behaves: "ok", "commit_raises" (add or commit fails, nothing is
\* stored) or "refresh_raises" (the row is committed, then db.refresh fails).
\* by is bookkeeping: the invocation or request the row was written for.
RequiredKwargs == {"specialty", "assessment_type", "clinician_id", "patient_id", "input_data"}

Get(kwargs, k, default) == IF k \in DOMAIN kwargs THEN kwargs[k] ELSE default

create_drops_optional(tbl, kwargs, db, id, by) ==
    IF ~(RequiredKwargs \subseteq DOMAIN kwargs)
    THEN [out |-> Raise("TypeError", "create"), table |-> tbl]
    ELSE LET assessment ==
                [id |-> id, by |-> by,
                 specialty |-> kwargs["specialty"],
                 assessment_type |-> kwargs["assessment_type"],
                 clinician_id |-> kwargs["clinician_id"],
                 patient_id |-> kwargs["patient_id"],
                 input_data |-> kwargs["input_data"],
                 result |-> None, algorithm_version |-> None, status |-> "draft"]
         IN  IF db = "commit_raises"
             THEN [out |-> Raise("SQLAlchemyError", "commit"), table |-> tbl]
             ELSE IF db = "refresh_raises"
             THEN [out |-> Raise("SQLAlchemyError", "refresh"),
                   table |-> tbl \cup {assessment}]
             ELSE [out |-> Ret(assessment), table |-> tbl \cup {assessment}]

create(tbl, kwargs, db, id, by) ==
    IF ~(RequiredKwargs \subseteq DOMAIN kwargs)
    THEN [out |-> Raise("TypeError", "create"), table |-> tbl]
    ELSE LET assessment ==
                [id |-> id, by |-> by,
                 specialty |-> kwargs["specialty"],
                 assessment_type |-> kwargs["assessment_type"],
                 clinician_id |-> kwargs["clinician_id"],
                 patient_id |-> kwargs["patient_id"],
                 input_data |-> kwargs["input_data"],
                 result |-> Get(kwargs, "result", None),
                 algorithm_version |-> Get(kwargs, "algorithm_version", None),
                 status |-> Get(kwargs, "status", "draft")]
         IN  IF db = "commit_raises"
             THEN [out |-> Raise("SQLAlchemyError", "commit"), table |-> tbl]
             ELSE IF db = "refresh_raises"
             THEN [out |-> Raise("SQLAlchemyError", "refresh"),
                   table |-> tbl \cup {assessment}]
             ELSE [out |-> Ret(assessment), table |-> tbl \cup {assessment}]

\* run_assessment_pipeline (assessment_pipeline.py:11-64) on cache c and table
\* tbl.  a holds the arguments, env and db the behaviour of the model's
\* environment and of the session during this invocation; uid is the next
\* fresh id.  pred is what the model function (wrapped or not) gave.
\* Lines 43-47: the call of the model function, wrapped when use_cache.
Predict(c, a, env, uid) ==
    IF a.use_cache
    THEN cache_result(c, a.model_function, a.input_schema, env, uid)
    ELSE [out |-> Invoke(a.model_function, a.input_schema, env, uid),
          cache |-> c, invoked |-> TRUE]

\* bool(v) of a patient id: None, 0 and "" are false, and a UUID is true.
Truthy(v) ==
    CASE v.t = "none" -> FALSE
      [] v.t = "num" -> v.n # 0
      [] v.t = "str" -> v.s # ""
      [] OTHER -> TRUE

\* patient_id or getattr(input_schema, "patient_id", None) (line 50).
final_patient_id_prefers_schema(patient_id, input_schema) ==
    IF Truthy(PatientId(input_schema)) THEN PatientId(input_schema) ELSE patient_id

final_patient_id(patient_id, input_schema) ==
    IF Truthy(patient_id) THEN patient_id ELSE PatientId(input_schema)

\* Line 64, or the error create raised.
Finished(call, made) ==
    [out |-> IF made.out.ok THEN call.out ELSE made.out,
     pred |-> call.out, invoked |-> call.invoked,
     cache |-> call.cache, table |-> made.table]

\* Lines 50-62: the patient id and the create call.
Persist_skips_error_results(call, tbl, a, db, uid, by) ==
    IF ~call.out.ok \/ call.out.val.error # None
    THEN [out |-> call.out, pred |-> call.out, invoked |-> call.invoked,
          cache |-> call.cache, table |-> tbl]
    ELSE Finished(call,
            create(tbl,
                   [specialty |-> SplitFirst(a.model_name),
                    assessment_type |-> a.assessment_type,
                    patient_id |-> final_patient_id(a.patient_id, a.input_schema),
                    clinician_id |-> a.clinician_id,
                    input_data |-> model_dump(a.input_schema),
                    result |-> model_dump(call.out.val),
                    algorithm_version |-> a.model_version,
                    status |-> "completed"],
                   db, uid + 1, by))

Persist(call, tbl, a, db, uid, by) ==
    IF ~call.out.ok
    THEN [out |-> call.out, pred |-> call.out, invoked |-> call.invoked,
          cache |-> call.cache, table |-> tbl]
    ELSE Finished(call,
            create(tbl,
                   [specialty |-> SplitFirst(a.model_name),
                    assessment_type |-> a.assessment_type,
                    patient_id |-> final_patient_id(a.patient_id, a.input_schema),
                    clinician_id |-> a.clinician_id,
                    input_data |-> model_dump(a.input_schema),
                    result |-> model_dump(call.out.val),
                    algorithm_version |-> a.model_version,
                    status |-> "completed"],
                   db, uid + 1, by))

run_assessment_pipeline(c, tbl, a, env, db, uid, by) ==
    Persist(Predict(c, a, env, uid), tbl, a, db, uid, by)

\* What each service passes for its model function (services/alzheimer/
\* diagnosis_screening_service.py:16-25, prognosis_2yr_basic_service.py:16-26).
ServiceTable(fn) ==
    CASE fn = "predict_cognitive_status" ->
            [assessment_type |-> "diagnosis_screening",
             model_name |-> "alz-diagnosis-screening-v1"]
      [] fn = "predict_prognosis_2yr_basic" ->
            [assessment_type |-> "prognosis_2yr_basic",
             model_name |-> "prognosis-2yr-basic-v1"]

ClinicianId == Str("clinician-1")

PipelineArgs(fn, input_schema, patient_id, use_cache) ==
    [input_schema |-> input_schema, clinician_id |-> ClinicianId, model_function |-> fn,
     assessment_type |-> ServiceTable(fn).assessment_type,
     model_name |-> ServiceTable(fn).model_name,
     patient_id |-> patient_id, model_version |-> "1.0.0", use_cache |-> use_cache]

\* predict_diag_screen (diagnosis_screening_service.py:8-25), as the route's
\* wrapper calls it: the pipeline with use_cache=True and no patient_id.
predict_diag_screen(c, tbl, input_schema, env, db, uid, by) ==
    run_assessment_pipeline(c, tbl,
        PipelineArgs("predict_cognitive_status", input_schema, None, TRUE),
        env, db, uid, by)

\* predict_prog_2yr_basic (prognosis_2yr_basic_service.py:8-26) passes
\* specialty=, a keyword run_assessment_pipeline does not have: TypeError
\* before the pipeline starts.
predict_prog_2yr_basic(c, tbl, input_schema, env, db, uid, by) ==
    [out |-> Raise("TypeError", "run_assessment_pipeline"), pred |-> None,
     invoked |-> FALSE, cache |-> c, table |-> tbl]

\* assessment_endpoint (assessment_endpoint.py:39-88) around the outcome svc of
\* its service function: normalise, persist with its own create call (which
\* passes no specialty), report.  Any exception becomes HTTP 500.
\* Lines 78-88: return result, or HTTP 500 for what create raised.
Reported(made) ==
    IF made.out.ok
    THEN [status |-> "success", detail |-> "", table |-> made.table]
    ELSE [status |-> "error", detail |-> made.out.err, table |-> made.table]

assessment_endpoint(svc, assessment_type, input_data, db, id, by) ==
    IF ~svc.out.ok
    THEN [status |-> "error", detail |-> svc.out.err, table |-> svc.table]
    ELSE Reported(create(svc.table,
                         [assessment_type |-> assessment_type,
                          patient_id |-> None,
                          clinician_id |-> ClinicianId,
                          input_data |-> model_dump(input_data),
                          result |-> model_dump(svc.out.val),
                          algorithm_version |-> "v1.0"],
                         db, id, by))

(***************************************************************************)
(* Spec: pipeline invocations and endpoint requests, one after the other,  *)
(* on one process-wide cache and one table.                                *)
(***************************************************************************)
\* Longest sequence of pipeline invocations.
MaxCalls == 2

ScreeningInput(pid) ==
    [k \in {"patient_id", "age", "gender", "race"} |->
        CASE k = "patient_id" -> pid [] k = "age" -> Num(70)
          [] k = "gender" -> Str("male") [] OTHER -> Num(1)]

\* The environment of one model call: load_model returns or raises (l).
LoadEnv(l) ==
    [load |-> l, scaler |-> "affine", predict |-> "ok",
     proba |-> <<Num(70), Num(20), Num(10)>>]

PrognosisEnv(l) ==
    [load |-> l, scaler |-> "affine", predict |-> "ok", proba |-> <<Num(65), Num(35)>>]

\* The model calls a pipeline invocation may make: the function, its input
\* and how the model's environment behaves during the invocation.
PipeCalls ==
    {[fn |-> "predict_cognitive_status", input |-> ScreeningInput(pid), env |-> LoadEnv(l)] :
        pid \in PatientIds, l \in {"ok", "raises"}}
    \cup {[fn |-> "predict_prognosis_2yr_basic",
           input |-> MkInput(None, Num(81), Str("male"), Num(1)),
           env |-> PrognosisEnv(l)] : l \in {"ok", "raises"}}

\* The patient_id argument of a direct invocation: absent, or a UUID as the
\* signature declares.
ExplicitPatientIds == {None, [t |-> "uuid", n |-> 9]}

\* The direct invocations: a model call with the patient_id and use_cache
\* arguments.  The screening function is invoked cached with or without a
\* patient_id, and uncached without one; when its model fails to load, on the
\* input that names no patient (a patient id plays no part once the model
\* call raises).  The prognosis function is invoked as its service does,
\* cached and without patient_id, and uncached once its model loads.
DirectCalls ==
    {[pc |-> pc, patient_id |-> pid, use_cache |-> TRUE] :
        pc \in {c \in PipeCalls : c.fn = "predict_cognitive_status" /\ c.env.load = "ok"},
        pid \in ExplicitPatientIds}
    \cup {[pc |-> pc, patient_id |-> None, use_cache |-> FALSE] :
        pc \in {c \in PipeCalls : c.fn = "predict_cognitive_status" /\ c.env.load = "ok"}}
    \cup {[pc |-> pc, patient_id |-> None, use_cache |-> uc] :
        pc \in {c \in PipeCalls : /\ c.fn = "predict_cognitive_status"
                                  /\ c.env.load = "raises"
                                  /\ PatientId(c.input) = None},
        uc \in BOOLEAN}
    \cup {[pc |-> pc, patient_id |-> None, use_cache |-> TRUE] :
        pc \in {c \in PipeCalls : c.fn = "predict_prognosis_2yr_basic"}}
    \cup {[pc |-> pc, patient_id |-> None, use_cache |-> FALSE] :
        pc \in {c \in PipeCalls : c.fn = "predict_prognosis_2yr_basic" /\ c.env.load = "ok"}}

DbOutcomes == {"ok", "commit_raises", "refresh_raises"}

Init ==
    /\ fcall = None
    /\ mcall = None
    /\ PipeIdle

\* Bookkeeping of a finished pipeline invocation: its log entry and the call
\* counter of the underlying function behind the wrapper.
LogEntry(a, env, r, rq) ==
    [fn |-> a.model_function, input |-> a.input_schema, use_cache |-> a.use_cache,
     patient_id |-> a.patient_id, env |-> env,
     key |-> make_key(FuncName(a.model_function), a.input_schema),
     invoked |-> r.invoked, pred |-> r.pred, out |-> r.out, live |-> TRUE, rq |-> rq]

Counted(a, r) ==
    LET key == make_key(FuncName(a.model_function), a.input_schema)
    IN  IF a.use_cache /\ r.invoked
        THEN SetItem(ncalls, key, Get(ncalls, key, 0) + 1)
        ELSE ncalls

\* A caller invokes run_assessment_pipeline directly, with or without a
\* patient_id of its own.
RunAssessmentPipeline ==
    /\ Len(log) < MaxCalls
    /\ \E dc \in DirectCalls, db \in DbOutcomes :
        \E a \in {PipelineArgs(dc.pc.fn, dc.pc.input, dc.patient_id, dc.use_cache)} :
        \E r \in {run_assessment_pipeline(cache, table, a, dc.pc.env, db, nextId,
                                          [inv |-> Len(log) + 1, rq |-> 0])} :
            /\ cache' = r.cache
            /\ table' = r.table
            /\ nextId' = nextId + 2
            /\ log' = Append(log, LogEntry(a, dc.pc.env, r, 0))
            /\ ncalls' = Counted(a, r)
    /\ UNCHANGED <<others, fcall, mcall, req>>

\* A request to the screening endpoint: the service runs the pipeline, then
\* the endpoint persists and reports.
ScreeningEndpoint ==
    /\ Len(log) < MaxCalls
    /\ \E pc \in PipeCalls, db \in DbOutcomes :
        /\ pc.fn = "predict_cognitive_status"
        /\ \E rid \in {Len(log) + 1} :
           \E svc \in {predict_diag_screen(cache, table, pc.input, pc.env, db, nextId,
                                           [inv |-> rid, rq |-> rid])} :
           \E e \in {assessment_endpoint(svc, "diagnosis_screening", pc.input, db,
                                         nextId + 2, [inv |-> 0, rq |-> rid])} :
               /\ cache' = svc.cache
               /\ table' = e.table
               /\ nextId' = nextId + 3
               /\ log' = Append(log, LogEntry(PipelineArgs(pc.fn, pc.input, None, TRUE),
                                              pc.env, svc, rid))
               /\ ncalls' = Counted(PipelineArgs(pc.fn, pc.input, None, TRUE), svc)
               /\ req' = [id |-> rid, service |-> "predict_diag_screen",
                          status |-> e.status, detail |-> e.detail]
    /\ UNCHANGED <<others, fcall, mcall>>

\* A request to the basic prognosis endpoint: its service raises before the
\* pipeline starts.
PrognosisEndpoint ==
    /\ Len(log) < MaxCalls
    /\ \E pc \in PipeCalls, db \in DbOutcomes :
        /\ pc.fn = "predict_prognosis_2yr_basic"
        /\ \E rid \in {Len(log) + 1} :
           \E svc \in {predict_prog_2yr_basic(cache, table, pc.input, pc.env, db, nextId,
                                              [inv |-> rid, rq |-> rid])} :
           \E e \in {assessment_endpoint(svc, "prognosis_2yr_basic", pc.input, db,
                                         nextId, [inv |-> 0, rq |-> rid])} :
               /\ cache' = svc.cache
               /\ table' = e.table
               /\ req' = [id |-> rid, service |-> "predict_prog_2yr_basic",
                          status |-> e.status, detail |-> e.detail]
    /\ UNCHANGED <<others, fcall, mcall, nextId, log, ncalls>>

\* clear_cache (cache.py:46-48) on a cache that holds something; the calls
\* made so far no longer count as calls without an intervening clear.
ClearCache ==
    /\ cache # EmptyDict
    /\ cache' = EmptyDict
    /\ ncalls' = EmptyDict
    /\ log' = [i \in DOMAIN log |-> [log[i] EXCEPT !.live = FALSE]]
    /\ UNCHANGED <<others, fcall, mcall, table, nextId, req>>

Next ==
    \/ RunAssessmentPipeline
    \/ ScreeningEndpoint
    \/ PrognosisEndpoint
    \/ ClearCache

Spec == Init /\ [][Next]_vars

(***************************************************************************)
(* Claims about the pipeline, the endpoint and the cache, checked under    *)
(* Spec.                                                                   *)
(***************************************************************************)
\* The records the i-th pipeline invocation created.
RecordsOf(i) == {r \in table : r.by.inv = i}

Returned == {i \in DOMAIN log : log[i].out.ok}

\* C1: every run_assessment_pipeline invocation, cache hit or fresh model
\* call, created exactly one record if it returned normally and none if it
\* raised; the records of the pipeline are as many as the invocations that
\* returned.
C1_OneRecordPerReturn ==
    /\ \A i \in DOMAIN log :
        Cardinality(RecordsOf(i)) = IF log[i].out.ok THEN 1 ELSE 0
    /\ Cardinality({r \in table : r.by.inv # 0}) = Cardinality(Returned)

\* C2: for a request served by an endpoint whose service function runs the
\* pipeline, exactly one record exists for the request when the endpoint
\* reports success and none when it reports an error.
C2_EndpointRecordMatchesReport ==
    req # None =>
        LET n == Cardinality({r \in table : r.by.rq = req.id})
        IN  /\ req.status = "success" => n = 1
            /\ req.status = "error" => n = 0

\* The calls through the wrapper with no clear_cache since.
Cached == {i \in DOMAIN log : log[i].live /\ log[i].use_cache}

SameKey(i, j) == log[i].key = log[j].key

\* The first call with the key of call i.
FirstCall(i) == CHOOSE f \in Cached : SameKey(f, i) /\ \A g \in Cached : SameKey(g, i) => f <= g

CreateRaised == {i \in DOMAIN log : log[i].pred.ok /\ ~log[i].out.ok}

\* C11: when create raises during run_assessment_pipeline, the pipeline raises
\* that error to its caller, returns no prediction, and no record exists for
\* the invocation.
C11_CreateFailureLeavesNoRecord ==
    \A i \in CreateRaised :
        /\ log[i].out.err = "SQLAlchemyError"
        /\ RecordsOf(i) = {}

\* The record written for invocation i, when there is exactly one.
RecordOf(i) == CHOOSE r \in RecordsOf(i) : TRUE

\* The patient id invocation i asked for: its patient_id argument when one is
\* given, otherwise the input schema's field.
EffectivePatientId(i) ==
    IF log[i].patient_id # None THEN log[i].patient_id ELSE log[i].input["patient_id"]

\* C12: the record of a successful run_assessment_pipeline call has result
\* equal to the JSON form of the schema returned to the caller, input_data
\* equal to the JSON form of the input schema, and the assessment_type,
\* clinician_id, effective patient id and algorithm version of that
\* invocation, whoever populated the cache.
C12_RecordMatchesInvocation ==
    \A i \in Returned :
        /\ RecordsOf(i) # {}
        /\ \A r \in RecordsOf(i) :
            /\ r.result = model_dump(log[i].out.val)
            /\ r.input_data = model_dump(log[i].input)
            /\ r.assessment_type = ServiceTable(log[i].fn).assessment_type
            /\ r.clinician_id = ClinicianId
            /\ r.patient_id = EffectivePatientId(i)
            /\ r.algorithm_version = "1.0.0"

\* C12 witness: a cache hit returned the object an earlier invocation with
\* another patient_id argument had stored, and its record carries the later
\* invocation's patient id and that object's JSON form.
C12_Witness ==
    \E i, j \in Returned :
        /\ i < j /\ log[i].live /\ log[i].use_cache /\ log[j].use_cache
        /\ SameKey(i, j) /\ log[i].invoked /\ ~log[j].invoked
        /\ log[i].patient_id # log[j].patient_id
        /\ RecordOf(j).patient_id = EffectivePatientId(j)
        /\ RecordOf(j).patient_id # RecordOf(i).patient_id
        /\ RecordOf(j).result = model_dump(log[j].out.val)

\* C20: the patient id on a record run_assessment_pipeline wrote is the
\* patient_id argument whenever one is given, otherwise the input schema's
\* patient_id field, otherwise null; the argument is never overridden by the
\* field.
C20_ExplicitPatientIdWins ==
    \A i \in DOMAIN log : \A r \in RecordsOf(i) :
        /\ log[i].patient_id \in ExplicitPatientIds \ {None}
            => r.patient_id = log[i].patient_id
        /\ (log[i].patient_id = None /\ PatientId(log[i].input) # None)
            => r.patient_id = PatientId(log[i].input)
        /\ (log[i].patient_id = None /\ PatientId(log[i].input) = None)
            => r.patient_id = None

\* C20 witness: an invocation given a patient_id argument on an input schema
\* that names another patient wrote a record with the argument.
C20_Witness ==
    \E i \in DOMAIN log : \E r \in RecordsOf(i) :
        /\ log[i].patient_id # None
        /\ PatientId(log[i].input) # None
        /\ PatientId(log[i].input) # log[i].patient_id
        /\ r.patient_id = log[i].patient_id

\* The invocations whose model function returned an error-shaped result (a
\* result object with an error message), freshly or from the cache.
ErrorShaped == {i \in DOMAIN log : log[i].pred.ok /\ log[i].pred.val.error # None}

\* C25 as stated: when the model function returns an error-shaped result,
\* run_assessment_pipeline persists exactly one record whose result holds
\* that error message and returns the error-shaped result to the caller.
C25_ErrorResultPersisted ==
    \A i \in ErrorShaped :
        /\ Cardinality(RecordsOf(i)) = 1
        /\ \A r \in RecordsOf(i) : r.result.error = log[i].pred.val.error
        /\ log[i].out = log[i].pred

\* C25 amended: when the model function returns an error-shaped result and
\* create returns, the pipeline has persisted exactly one record whose result
\* holds that error message and returns the error-shaped result; when create
\* raises instead, the pipeline raises create's error.
C25_ErrorResultPersistedWhenCreateReturns ==
    \A i \in ErrorShaped :
        IF log[i].out.ok
        THEN /\ Cardinality(RecordsOf(i)) = 1
             /\ \A r \in RecordsOf(i) :
                    /\ r.result.error = log[i].pred.val.error
                    /\ r.result = model_dump(log[i].pred.val)
             /\ log[i].out = log[i].pred
        ELSE log[i].out.err = "SQLAlchemyError"

\* C25 witness: the prognosis function failed to load its model and returned
\* an error-shaped result; the pipeline returned it and one record holds it.
C25_Witness ==
    \E i \in ErrorShaped :
        /\ log[i].invoked /\ log[i].out.ok
        /\ log[i].out.val.error = Str("RuntimeError")
        /\ Cardinality(RecordsOf(i)) = 1
        /\ RecordOf(i).result.error = Str("RuntimeError")

\* Invocation j came after invocation i on the same function and input, with
\* no clear_cache since i.
LaterSameInput(i, j) ==
    /\ i < j /\ log[i].live
    /\ log[j].fn = log[i].fn /\ log[j].input = log[i].input

\* The invocations under use_cache=True whose model function returned an
\* error-shaped result.
CachedError == {i \in ErrorShaped : log[i].use_cache}

\* C27 as stated: once a model function has returned an error-shaped result
\* for an input under use_cache=True, every later run_assessment_pipeline
\* call with that input returns that same error result without re-invoking
\* the model function, until clear_cache is called.
C27_ErrorResultServedToEveryLaterCall ==
    \A i \in CachedError : \A j \in DOMAIN log :
        LaterSameInput(i, j)
            => /\ ~log[j].invoked
               /\ log[j].out = log[i].pred

\* C27 amended: once a model function has returned an error-shaped result
\* for an input under use_cache=True, every later call with that input and
\* use_cache=True gets that same result from the cache without re-invoking
\* the model function, whether or not the cause of the failure is gone, until
\* clear_cache; the pipeline returns it when create returns and raises
\* create's error otherwise.
C27_ErrorResultServedFromCache ==
    \A i \in CachedError : \A j \in DOMAIN log :
        (LaterSameInput(i, j) /\ log[j].use_cache)
            => /\ ~log[j].invoked
               /\ log[j].pred = log[i].pred
               /\ IF log[j].out.ok THEN log[j].out = log[i].pred
                  ELSE log[j].out.err = "SQLAlchemyError"

\* C27 witness: the model failed to load in one invocation and would have
\* loaded in a later one on the same input, which returned the cached error
\* result without invoking the model function.
C27_Witness ==
    \E i \in CachedError : \E j \in DOMAIN log :
        /\ LaterSameInput(i, j) /\ log[j].use_cache
        /\ log[i].invoked /\ log[i].env.load = "raises"
        /\ log[j].env.load = "ok"
        /\ ~log[j].invoked
        /\ log[j].out = log[i].pred
        /\ log[j].out.val.error = Str("RuntimeError")

\* The invocations under use_cache=True that failed at persistence: the model
\* call (or the cache) gave a result and create raised.
FailedAtPersistence == {i \in CreateRaised : log[i].use_cache}

\* C30: an invocation with use_cache=True that fails at persistence leaves
\* its result in the cache: until clear_cache the cache holds that result
\* under the invocation's key, and a retry (the same function and input, with
\* use_cache=True) does not invoke the model function again, gets that
\* result, and what it persists is that result, in one record when its own
\* create returns.
C30_FailedPersistenceKeepsResult ==
    \A i \in FailedAtPersistence :
        /\ log[i].live =>
                /\ log[i].key \in DOMAIN cache
                /\ cache[log[i].key] = log[i].pred.val
        /\ \A j \in DOMAIN log :
            (LaterSameInput(i, j) /\ log[j].use_cache)
                => /\ ~log[j].invoked
                   /\ log[j].pred = log[i].pred
                   /\ \A r \in RecordsOf(j) : r.result = model_dump(log[i].pred.val)
                   /\ log[j].out.ok => Cardinality(RecordsOf(j)) = 1

\* C30 witness: an invocation computed a result and failed at commit, leaving
\* no record; the retry did not invoke the model function, returned the
\* result of the failed invocation and wrote the one record that holds it.
C30_Witness ==
    \E i \in FailedAtPersistence : \E j \in DOMAIN log :
        /\ LaterSameInput(i, j) /\ log[j].use_cache
        /\ log[i].invoked /\ log[i].out.arg = "commit" /\ RecordsOf(i) = {}
        /\ ~log[j].invoked /\ log[j].out = log[i].pred
        /\ Cardinality(RecordsOf(j)) = 1
        /\ RecordOf(j).result = model_dump(log[i].pred.val)
        /\ RecordOf(j).result.prediction_id.n = log[i].pred.val.prediction_id.n

\* C23: prediction_id is unique per prediction: two distinct invocations of
\* run_assessment_pipeline, even on identical input with use_cache=True, never
\* return results with the same prediction_id and never persist records whose
\* result carries the same prediction_id.
C23_PredictionIdUnique ==
    /\ \A i, j \in Returned :
        i # j => log[i].out.val.prediction_id # log[j].out.val.prediction_id
    /\ \A i, j \in DOMAIN log : \A r \in RecordsOf(i), q \in RecordsOf(j) :
        i # j => r.result.prediction_id # q.result.prediction_id

(***************************************************************************)
(* SpecCache: threads calling wrappers built by cache_result               *)
(* (services/alzheimer/cache.py:23-33) around functions, on the one        *)
(* module-level _cache.  A thread can be preempted between any two lines   *)
(* of the wrapper; a dict test, read or store is atomic.                   *)
(***************************************************************************)
Threads == {1, 2}

\* Most wrapper calls begun in a behaviour.
MaxWrapperCalls == 3

\* A function object: what tells it apart (its module and qualified name) and
\* its __name__.  Two functions defined under one name in two modules have
\* the same __name__.
ScreeningFunction ==
    [id |-> "ml_models.diagnosis_screening.predict_cognitive_status",
     name |-> "predict_cognitive_status"]

NamesakeFunction ==
    [id |-> "ml_models.diagnosis_screening_v2.predict_cognitive_status",
     name |-> "predict_cognitive_status"]

WrappedFunctions == {ScreeningFunction, NamesakeFunction}

WrapperArgs == {ScreeningInput(None), ScreeningInput(Num(7))}

InitCache ==
    /\ fcall = None
    /\ mcall = None
    /\ cache = EmptyDict
    /\ table = {}
    /\ nextId = 1
    /\ ncalls = EmptyDict
    /\ log = <<>>
    /\ req = None
    /\ wcall = [t \in Threads |-> None]
    /\ lcall = None
    /\ memo = <<>>
    /\ files = EmptyDict

Returns == {i \in DOMAIN log : log[i].kind = "return"}

Begun == Cardinality(Returns) + Cardinality({t \in Threads : wcall[t] # None})

\* _cache[key] = result (line 31).
StoreValue_keep_first(c, key, result) == IF key \in DOMAIN c THEN c ELSE SetItem(c, key, result)

StoreValue(c, key, result) == SetItem(c, key, result)

\* The event logged when a wrapper call ends with outcome out.
ReturnEvent(t, out, invoked) ==
    [kind |-> "return", t |-> t, func |-> wcall[t].func, arg |-> wcall[t].arg,
     key |-> wcall[t].key, begun |-> wcall[t].begun, invoked |-> invoked, out |-> out]

\* Line 27: the wrapper is entered and computes its key.
WrapperBegin(t) ==
    /\ wcall[t] = None
    /\ Begun < MaxWrapperCalls
    /\ \E func \in WrappedFunctions, arg \in WrapperArgs :
        wcall' = [wcall EXCEPT ![t] =
                    [func |-> func, arg |-> arg, key |-> make_key(func.name, arg),
                     pc |-> "check", result |-> None, begun |-> Len(log)]]
    /\ UNCHANGED <<fcall, mcall, cache, table, nextId, ncalls, log, req, lcall, memo, files>>

\* Line 28: if key in _cache.
WrapperCheck(t) ==
    /\ wcall[t] # None /\ wcall[t].pc = "check"
    /\ wcall' = [wcall EXCEPT ![t].pc =
                    IF wcall[t].key \in DOMAIN cache THEN "read" ELSE "call"]
    /\ UNCHANGED <<fcall, mcall, cache, table, nextId, ncalls, log, req, lcall, memo, files>>

\* Line 29: return _cache[key].
WrapperRead(t) ==
    /\ wcall[t] # None /\ wcall[t].pc = "read"
    /\ log' = Append(log, ReturnEvent(t,
                    IF wcall[t].key \in DOMAIN cache THEN Ret(cache[wcall[t].key])
                    ELSE Raise("KeyError", "_cache"), FALSE))
    /\ wcall' = [wcall EXCEPT ![t] = None]
    /\ UNCHANGED <<fcall, mcall, cache, table, nextId, ncalls, req, lcall, memo, files>>

\* Line 30: result = func(*args, **kwargs).  The function returns a fresh
\* object that says which function made it and on what, or raises.
WrapperCall(t) ==
    /\ wcall[t] # None /\ wcall[t].pc = "call"
    /\ ncalls' = SetItem(ncalls, wcall[t].key, Get(ncalls, wcall[t].key, 0) + 1)
    /\ \/ /\ wcall' = [wcall EXCEPT ![t].pc = "store",
                            ![t].result = [by |-> wcall[t].func.id, on |-> wcall[t].arg,
                                           prediction_id |-> nextId]]
          /\ nextId' = nextId + 1
          /\ log' = log
       \/ /\ log' = Append(log, ReturnEvent(t, Raise("RuntimeError", "func"), TRUE))
          /\ wcall' = [wcall EXCEPT ![t] = None]
          /\ nextId' = nextId
    /\ UNCHANGED <<fcall, mcall, cache, table, req, lcall, memo, files>>

\* Line 31: _cache[key] = result.
WrapperStore(t) ==
    /\ wcall[t] # None /\ wcall[t].pc = "store"
    /\ cache' = StoreValue(cache, wcall[t].key, wcall[t].result)
    /\ log' = Append(log, [kind |-> "store", t |-> t, key |-> wcall[t].key,
                           value |-> wcall[t].result])
    /\ wcall' = [wcall EXCEPT ![t].pc = "return"]
    /\ UNCHANGED <<fcall, mcall, table, nextId, ncalls, req, lcall, memo, files>>

\* Line 32: return result.
WrapperReturn(t) ==
    /\ wcall[t] # None /\ wcall[t].pc = "return"
    /\ log' = Append(log, ReturnEvent(t, Ret(wcall[t].result), TRUE))
    /\ wcall' = [wcall EXCEPT ![t] = None]
    /\ UNCHANGED <<fcall, mcall, cache, table, nextId, ncalls, req, lcall, memo, files>>

NextCache ==
    \/ \E t \in Threads : WrapperBegin(t)
    \/ \E t \in Threads : WrapperCheck(t)
    \/ \E t \in Threads : WrapperRead(t)
    \/ \E t \in Threads : WrapperCall(t)
    \/ \E t \in Threads : WrapperStore(t)
    \/ \E t \in Threads : WrapperReturn(t)

SpecCache == InitCache /\ [][NextCache]_vars

\* C16: a call to a cached function never returns a value that a different
\* function computed and stored, whatever the arguments and the __name__ of
\* the two functions.
C16_KeyedByFunctionIdentity ==
    \A i \in Returns :
        log[i].out.ok => log[i].out.val.by = log[i].func.id

\* The store events of a key, and the last of them.
StoresOf(k) == {i \in DOMAIN log : log[i].kind = "store" /\ log[i].key = k}

LastStore(k, before) ==
    CHOOSE i \in StoresOf(k) : i < before /\ \A j \in StoresOf(k) : j < before => j <= i

\* C17: in any interleaving of concurrent calls with one key, a caller
\* receives a value produced by an invocation on its own arguments; the cache
\* holds one entry per key, the value stored last; and a call begun after a
\* store to its key returns the entry without invoking the function.
C17_LastWriteWins ==
    /\ \A i \in Returns : log[i].out.ok => log[i].out.val.on = log[i].arg
    /\ DOMAIN cache = {log[i].key : i \in {j \in DOMAIN log : log[j].kind = "store"}}
    /\ \A k \in DOMAIN cache : cache[k] = log[LastStore(k, Len(log) + 1)].value
    /\ \A i \in Returns :
        (\E s \in StoresOf(log[i].key) : s <= log[i].begun)
            => /\ ~log[i].invoked
               /\ log[i].out = Ret(log[LastStore(log[i].key, i)].value)

\* C17 witness: two overlapping calls with one key both missed and invoked
\* the function, each got its own result, the cache holds the one stored
\* last, and a call begun after both returned that entry without invoking.
C17_Witness ==
    \E i, j, m \in Returns :
        /\ i < j /\ j < m
        /\ log[i].key = log[j].key /\ log[j].key = log[m].key
        /\ log[j].begun < i
        /\ log[i].invoked /\ log[j].invoked /\ log[i].out.ok /\ log[j].out.ok
        /\ log[i].out # log[j].out
        /\ Cardinality(StoresOf(log[i].key)) = 2
        /\ log[m].begun >= j /\ ~log[m].invoked
        /\ log[m].out = Ret(cache[log[m].key])
        /\ cache[log[m].key] = log[LastStore(log[m].key, Len(log) + 1)].value

(***************************************************************************)
(* SpecLoad: threads calling load_model (clinical/utils.py:230-282), which *)
(* stages each artifact through _download_s3_to_tempfile (218-227), an     *)
(* lru_cache keyed by (bucket, key), and deserializes the staged file with *)
(* joblib.load on every call.                                              *)
(***************************************************************************)
\* S3_BUCKET (clinical/utils.py:26) with the environment variable unset.
S3_BUCKET == "clinovia.ai"

\* lru_cache(maxsize=32), scaled down so that eviction happens.
MemoSize == 2

\* Most load_model calls begun in a behaviour.
MaxLoadCalls == 3

\* What the bucket holds, fixed while the process lives: object key ->
\* content.  A key outside the domain has no object.
Artifacts ==
    [k \in {"model.joblib", "scaler.joblib", "broken.joblib"} |->
        IF k = "broken.joblib" THEN "corrupt" ELSE k]

\* The (model_key, preprocessor_key) pairs the threads call load_model with.
LoadCalls ==
    {<<"model.joblib", None>>, <<"model.joblib", Str("scaler.joblib")>>,
     <<"broken.joblib", None>>, <<"model.joblib", Str("broken.joblib")>>,
     <<"absent.joblib", None>>}

InitLoad ==
    /\ fcall = None
    /\ mcall = None
    /\ cache = EmptyDict
    /\ table = {}
    /\ nextId = 1
    /\ ncalls = EmptyDict
    /\ log = <<>>
    /\ req = None
    /\ wcall = None
    /\ lcall = [t \in Threads |-> None]
    /\ memo = <<>>
    /\ files = EmptyDict

LoadsBegun == Len(log) + Cardinality({t \in Threads : lcall[t] # None})

\* The key the call is staging or deserializing.
CurrentKey(c) == IF c.which = "model" THEN c.model_key ELSE c.preprocessor_key.s

MemoKeys == {memo[i].key : i \in DOMAIN memo}

MemoIndex(k) == CHOOSE i \in DOMAIN memo : memo[i].key = k

\* The staged path the memo holds for a key.
MemoPath_newest(q, k) == q[Len(q)].path

MemoPath(q, k) == q[MemoIndex(k)].path

Without(q, i) == [j \in 1..(Len(q) - 1) |-> IF j < i THEN q[j] ELSE q[j + 1]]

\* A hit moves the entry to the most recently used end.
Touch(q, k) == Append(Without(q, MemoIndex(k)), q[MemoIndex(k)])

\* The insert after a miss: nothing when another thread has stored the key
\* meanwhile, otherwise the new entry, in place of the oldest when full.
Insert(q, k, path) ==
    IF \E i \in DOMAIN q : q[i].key = k THEN q
    ELSE IF Len(q) >= MemoSize THEN Append(Tail(q), [key |-> k, path |-> path])
    ELSE Append(q, [key |-> k, path |-> path])

\* The key an insert evicts, if any.
Evicted(q, k) ==
    IF (\A i \in DOMAIN q : q[i].key # k) /\ Len(q) >= MemoSize THEN {Head(q).key} ELSE {}

\* joblib.load(path): the object of a well-formed file; an error for a file
\* that is absent, empty or corrupt.
joblib_load(path) ==
    IF path \notin DOMAIN files THEN Raise("FileNotFoundError", path)
    ELSE IF files[path] \in {"empty", "corrupt"} THEN Raise("UnpicklingError", path)
    ELSE Ret([t |-> "joblib", of |-> files[path]])

\* The log entry of a finished load_model call.
LoadEvent(t, out) ==
    [t |-> t, model_key |-> lcall[t].model_key, preprocessor_key |-> lcall[t].preprocessor_key,
     begun |-> lcall[t].begun, downloaded |-> lcall[t].downloaded,
     deserialized |-> lcall[t].deserialized, out |-> out]

\* Lines 251-258: the bucket test, then the model is staged first.
LoadBegin(t) ==
    /\ lcall[t] = None
    /\ LoadsBegun < MaxLoadCalls
    /\ S3_BUCKET # ""
    /\ \E a \in LoadCalls :
        lcall' = [lcall EXCEPT ![t] =
                    [model_key |-> a[1], preprocessor_key |-> a[2], which |-> "model",
                     pc |-> "lookup", path |-> 0, model |-> None, preprocessor |-> None,
                     begun |-> Len(log), downloaded |-> {}, deserialized |-> {}]]
    /\ UNCHANGED <<fcall, mcall, cache, table, nextId, ncalls, log, req, wcall, memo, files>>

\* The lru_cache lookup of _download_s3_to_tempfile(bucket, key).
LoadLookup(t) ==
    /\ lcall[t] # None /\ lcall[t].pc = "lookup"
    /\ IF CurrentKey(lcall[t]) \in MemoKeys
       THEN /\ lcall' = [lcall EXCEPT ![t].pc = "deserialize",
                            ![t].path = MemoPath(memo, CurrentKey(lcall[t]))]
            /\ memo' = Touch(memo, CurrentKey(lcall[t]))
       ELSE /\ lcall' = [lcall EXCEPT ![t].pc = "stage"]
            /\ memo' = memo
    /\ UNCHANGED <<fcall, mcall, cache, table, nextId, ncalls, log, req, wcall, files>>

\* tempfile.NamedTemporaryFile(delete=False) (line 224): the n-th temporary
\* file of the process gets a name no other file has.
NamedTemporaryFile_one_name(n) == 1

NamedTemporaryFile(n) == n

\* Lines 224-225: a new, empty temporary file is created and closed.
LoadStage(t) ==
    /\ lcall[t] # None /\ lcall[t].pc = "stage"
    /\ \E path \in {NamedTemporaryFile(nextId)} :
        /\ files' = SetItem(files, path, "empty")
        /\ lcall' = [lcall EXCEPT ![t].pc = "download", ![t].path = path]
    /\ nextId' = nextId + 1
    /\ UNCHANGED <<fcall, mcall, cache, table, ncalls, log, req, wcall, memo>>

\* Line 226: download_file into the temporary file; a key without an object
\* raises and leaves the empty file behind.
LoadDownload(t) ==
    /\ lcall[t] # None /\ lcall[t].pc = "download"
    /\ IF CurrentKey(lcall[t]) \in DOMAIN Artifacts
       THEN /\ files' = SetItem(files, lcall[t].path, Artifacts[CurrentKey(lcall[t])])
            /\ lcall' = [lcall EXCEPT ![t].pc = "insert",
                            ![t].downloaded = @ \cup {CurrentKey(lcall[t])}]
            /\ log' = log
       ELSE /\ files' = files
            /\ log' = Append(log, LoadEvent(t, Raise("ClientError", CurrentKey(lcall[t]))))
            /\ lcall' = [lcall EXCEPT ![t] = None]
    /\ UNCHANGED <<fcall, mcall, cache, table, nextId, ncalls, req, wcall, memo>>

\* The lru_cache stores the path the download returned; ncalls notes the keys
\* that have been evicted.
LoadInsert(t) ==
    /\ lcall[t] # None /\ lcall[t].pc = "insert"
    /\ memo' = Insert(memo, CurrentKey(lcall[t]), lcall[t].path)
    /\ ncalls' = [k \in DOMAIN ncalls \cup Evicted(memo, CurrentKey(lcall[t])) |->
                    IF k \in DOMAIN ncalls THEN ncalls[k] ELSE 1]
    /\ lcall' = [lcall EXCEPT ![t].pc = "deserialize"]
    /\ UNCHANGED <<fcall, mcall, cache, table, nextId, log, req, wcall, files>>

\* Lines 259-260 and 272-273: joblib.load of the staged path.
LoadDeserialize(t) ==
    /\ lcall[t] # None /\ lcall[t].pc = "deserialize"
    /\ \E r \in {joblib_load(lcall[t].path)} :
        lcall' = [lcall EXCEPT
                    ![t].deserialized = @ \cup {CurrentKey(lcall[t])},
                    ![t].model = IF r.ok /\ lcall[t].which = "model" THEN r.val ELSE @,
                    ![t].preprocessor =
                        IF r.ok /\ lcall[t].which = "preprocessor" THEN r.val ELSE @,
                    ![t].which =
                        IF r.ok /\ lcall[t].preprocessor_key # None THEN "preprocessor" ELSE @,
                    ![t].pc =
                        IF ~r.ok THEN "remove"
                        ELSE IF lcall[t].which = "model" /\ lcall[t].preprocessor_key # None
                        THEN "lookup" ELSE "return"]
    /\ UNCHANGED <<fcall, mcall, cache, table, nextId, ncalls, log, req, wcall, memo, files>>

\* Lines 261-266 and 274-279: the staged file is removed, errors of the
\* removal are swallowed, and RuntimeError is raised.
LoadRemove(t) ==
    /\ lcall[t] # None /\ lcall[t].pc = "remove"
    /\ files' = [q \in DOMAIN files \ {lcall[t].path} |-> files[q]]
    /\ log' = Append(log, LoadEvent(t, Raise("RuntimeError", CurrentKey(lcall[t]))))
    /\ lcall' = [lcall EXCEPT ![t] = None]
    /\ UNCHANGED <<fcall, mcall, cache, table, nextId, ncalls, req, wcall, memo>>

\* Line 281: return model, preprocessor.
LoadReturn(t) ==
    /\ lcall[t] # None /\ lcall[t].pc = "return"
    /\ log' = Append(log, LoadEvent(t, Ret(<<lcall[t].model, lcall[t].preprocessor>>)))
    /\ lcall' = [lcall EXCEPT ![t] = None]
    /\ UNCHANGED <<fcall, mcall, cache, table, nextId, ncalls, req, wcall, memo, files>>

NextLoad ==
    \/ \E t \in Threads : LoadBegin(t)
    \/ \E t \in Threads : LoadLookup(t)
    \/ \E t \in Threads : LoadStage(t)
    \/ \E t \in Threads : LoadDownload(t)
    \/ \E t \in Threads : LoadInsert(t)
    \/ \E t \in Threads : LoadDeserialize(t)
    \/ \E t \in Threads : LoadRemove(t)
    \/ \E t \in Threads : LoadReturn(t)

SpecLoad == InitLoad /\ [][NextLoad]_vars

\* The object joblib.load gives for the artifact of a key.
ObjectOf(k) == [t |-> "joblib", of |-> Artifacts[k]]

Loadable(k) == k \in DOMAIN Artifacts /\ Artifacts[k] # "corrupt"

\* C18: after load_model(k) has succeeded once, a later load_model(k), with k
\* never evicted from the memo, performs neither a new download nor a new
\* deserialization of the artifact.
C18_NoReloadAfterSuccess ==
    \A i, j \in DOMAIN log :
        (/\ i <= log[j].begun
         /\ log[i].out.ok
         /\ log[i].model_key = log[j].model_key
         /\ log[j].model_key \notin DOMAIN ncalls)
        => /\ log[j].model_key \notin log[j].downloaded
           /\ log[j].model_key \notin log[j].deserialized

\* C19: load_model returns the objects deserialized from exactly the
\* requested keys (no preprocessor when none is requested) or raises; it
\* raises whenever the artifact of either key is missing or cannot be
\* deserialized, and never returns another key's model or a null model.
C19_RequestedArtifactsOrRaise ==
    \A i \in DOMAIN log :
        LET e == log[i]
        IN  /\ e.out.ok =>
                /\ Loadable(e.model_key)
                /\ e.out.val[1] = ObjectOf(e.model_key)
                /\ e.out.val[1] # None
                /\ IF e.preprocessor_key = None THEN e.out.val[2] = None
                   ELSE /\ Loadable(e.preprocessor_key.s)
                        /\ e.out.val[2] = ObjectOf(e.preprocessor_key.s)
            /\ ~Loadable(e.model_key) => ~e.out.ok
            /\ (e.preprocessor_key # None /\ ~Loadable(e.preprocessor_key.s)) => ~e.out.ok

\* C19 witness: a call served from the memo returned the model and the
\* preprocessor of its two keys, another call raised for a corrupt artifact
\* and a third for a missing one.
C19_Witness ==
    \E i, j, m \in DOMAIN log :
        /\ log[i].out = Ret(<<ObjectOf("model.joblib"), ObjectOf("scaler.joblib")>>)
        /\ log[i].preprocessor_key = Str("scaler.joblib")
        /\ "model.joblib" \notin log[i].downloaded
        /\ ~log[j].out.ok /\ log[j].out.err = "RuntimeError"
        /\ ~log[m].out.ok /\ log[m].out.err = "ClientError"

\* The keys a finished call asked for.
KeysOf(e) ==
    {e.model_key} \cup (IF e.preprocessor_key = None THEN {} ELSE {e.preprocessor_key.s})

\* Two finished calls ran at the same time: the later to finish began before
\* the earlier finished.
Overlap(i, j) == i < j /\ log[j].begun < i

\* C26: under concurrent, unsynchronized load_model calls every caller that
\* returns has the artifact of exactly its key: a thread only ever
\* deserializes a completely written staged file of the key it asked for, the
\* memo only holds such files for loadable keys, and a call on loadable keys
\* returns their objects.  The race costs repeated downloads, nothing else.
C26_RaceOnlyRepeatsDownload ==
    /\ \A t \in Threads :
        (lcall[t] # None /\ lcall[t].pc = "deserialize" /\ Loadable(CurrentKey(lcall[t])))
            => /\ lcall[t].path \in DOMAIN files
               /\ files[lcall[t].path] = Artifacts[CurrentKey(lcall[t])]
    /\ \A i \in DOMAIN memo :
        Loadable(memo[i].key)
            => /\ memo[i].path \in DOMAIN files
               /\ files[memo[i].path] = Artifacts[memo[i].key]
    /\ \A i \in DOMAIN log :
        (\A k \in KeysOf(log[i]) : Loadable(k))
            => /\ log[i].out.ok
               /\ log[i].out.val[1] = ObjectOf(log[i].model_key)

\* C26 witness: two load_model calls for one key ran at the same time, both
\* missed the memo and downloaded the artifact, and both returned the object
\* of that key.
C26_Witness ==
    \E i, j \in DOMAIN log :
        /\ Overlap(i, j)
        /\ log[i].model_key = "model.joblib" /\ log[j].model_key = "model.joblib"
        /\ "model.joblib" \in log[i].downloaded \cap log[j].downloaded
        /\ log[i].out.ok /\ log[j].out.ok
        /\ log[i].out.val[1] = ObjectOf("model.joblib")
        /\ log[j].out.val[1] = ObjectOf("model.joblib")
        /\ Cardinality({q \in DOMAIN files : files[q] = Artifacts["model.joblib"]}) >= 2

\* C28: every staged path the memo holds refers to a file that still exists;
\* after load_model failed to deserialize an artifact and removed its staged
\* file, a later load_model for that key downloads the artifact again
\* instead of using the memoized path of the removed file.
C28_MemoizedPathExists ==
    /\ \A i \in DOMAIN memo : memo[i].path \in DOMAIN files
    /\ \A i, j \in DOMAIN log :
        (/\ i <= log[j].begun
         /\ ~log[i].out.ok /\ log[i].out.err = "RuntimeError"
         /\ log[i].out.arg \in log[j].deserialized)
        => log[i].out.arg \in log[j].downloaded

====
